---- MODULE Spec2Model ----
(***************************************************************************)
(* The retrieval subsystem of the document question-answering service:     *)
(* the Local Flat Index (FAISSClient of app/services/vector_search.py),    *)
(* its three persisted artifacts, and the request pipeline of              *)
(* app/api/endpoints.py that writes and reads it.                          *)
(*                                                                         *)
(* Numbers.  Embeddings are float32 vectors in the code.  Here a vector is *)
(* a tuple of integers, and a normalised vector is held in fixed point     *)
(* with Unit standing for 1.0; the raw vectors are chosen with integral    *)
(* norms, so that normalisation and the inner product are exact.  A score  *)
(* is an inner product of two normalised vectors, in units of 1/Unit^2.    *)
(***************************************************************************)
EXTENDS Integers, Sequences, FiniteSets, TLC

(* ------------------------------ bounds -------------------------------- *)

\* The dimension the index is configured with (768 in app/core/config.py,
\* scaled down; the vectors below are padded with zeros up to Dim).
Dim == 2

\* The longest record list of one upsert call.
MaxBatch == 2

\* The largest number of vectors the index is let grow to.
MaxVectors == 3

\* The largest top_k a query asks for.
MaxTopK == 2

(* ------------------------------ values -------------------------------- *)

None == "None"
NoFile == "NoFile"
\* A file whose write was cut short: open(.., 'w') has truncated it and only
\* part of the new content is there.
Torn == "Torn"

\* Record ids: the pipeline numbers the chunks of every request "0", "1", ...
Ids == {"0", "1"}

\* Chunk texts, the value of metadata["text"].
Texts == {"A", "B"}

Metadatas == {[text |-> t] : t \in Texts}

Unit == 5

Pad(v) == v \o [i \in 1..(Dim - Len(v)) |-> 0]

V1 == Pad(<<5, 0>>)
V2 == Pad(<<6, 8>>)
VBad == <<5>>

\* The Vector Records (id, embedding, metadata) the upsert calls draw from:
\* an id with two vectors and two texts, two ids with the same vector, and a
\* record whose embedding has the wrong length.
Records ==
    {<<"0", V1, [text |-> "A"]>>, <<"0", V2, [text |-> "B"]>>,
     <<"1", V1, [text |-> "B"]>>, <<"1", VBad, [text |-> "A"]>>}

RECURSIVE SeqsUpTo(_, _)
SeqsUpTo(S, n) ==
    IF n = 0 THEN {<<>>}
    ELSE LET shorter == SeqsUpTo(S, n - 1)
         IN shorter \cup {Append(s, x) : s \in {t \in shorter : Len(t) = n - 1}, x \in S}

Batches == SeqsUpTo(Records, MaxBatch)

Min(a, b) == IF a <= b THEN a ELSE b

(* ------------------------- dict and str helpers ----------------------- *)

\* str(n) of a non-negative position, the key type of id_mapping.
Str(n) == ToString(n)

EmptyDict == [k \in {} |-> None]

\* d[k] = v on a Python dict.
DictSet(d, k, v) == [x \in (DOMAIN d) \cup {k} |-> IF x = k THEN v ELSE d[x]]

\* d.get(k, default)
DictGet(d, k, default) == IF k \in DOMAIN d THEN d[k] ELSE default

(* ------------------------------ numpy/faiss --------------------------- *)

RECURSIVE SumSq(_)
SumSq(v) == IF v = <<>> THEN 0 ELSE Head(v) * Head(v) + SumSq(Tail(v))

RECURSIVE Dot(_, _)
Dot(a, b) == IF a = <<>> THEN 0 ELSE Head(a) * Head(b) + Dot(Tail(a), Tail(b))

\* The L2 norm of a raw vector (the raw vectors have integral norms).
Norm(v) == CHOOSE r \in 0..SumSq(v) : r * r = SumSq(v)

\* faiss.normalize_L2 on one row: a zero row is left as it is.
Normalize(v) ==
    IF Norm(v) = 0 THEN v
    ELSE [i \in 1..Len(v) |-> (v[i] * Unit) \div Norm(v)]

\* np.array(embeddings, dtype=np.float32): rows of different lengths raise
\* ValueError; an empty list gives a 1-dimensional array of shape (0,).
NpArray(embeddings) ==
    IF \E i, j \in 1..Len(embeddings) : Len(embeddings[i]) # Len(embeddings[j])
    THEN [error |-> "ValueError", rows |-> <<>>]
    ELSE [error |-> None, rows |-> embeddings]

\* faiss.normalize_L2(embeddings_np): every row in place.  The wrapper reads
\* x.shape[1], which a 1-dimensional (empty) array does not have.
NormalizeL2(rows) ==
    IF Len(rows) = 0
    THEN [error |-> "IndexError", rows |-> <<>>]
    ELSE [error |-> None, rows |-> [i \in 1..Len(rows) |-> Normalize(rows[i])]]

\* faiss.IndexFlatIP(dimension): d and the stored rows (ntotal = their number).
IndexFlatIP(dimension) == [d |-> dimension, vecs |-> <<>>]

Ntotal(index) == Len(index.vecs)

\* index.add(x): the wrapper asserts x.shape[1] == index.d, then appends.
IndexAdd(index, rows) ==
    IF \E i \in 1..Len(rows) : Len(rows[i]) # index.d
    THEN [error |-> "AssertionError", index |-> index]
    ELSE [error |-> None, index |-> [index EXCEPT !.vecs = @ \o rows]]

(* ------------------- index.search: the result heap -------------------- *)
(* IndexFlatIP.search scans the stored rows in position order and keeps    *)
(* the k best in a heap whose top is the entry that is least by            *)
(* (score, position); a row replaces the top only when its score is        *)
(* strictly greater than the top's.  The heap is then emptied top first    *)
(* into the result from its last slot backwards, which orders the result   *)
(* by descending (score, position); unused slots hold position -1.         *)

NegInf == 0 - (Unit * Unit) - 1

HeapLess(a, b) == a.score < b.score \/ (a.score = b.score /\ a.idx < b.idx)

HeapTop(H) == CHOOSE t \in H : \A u \in H \ {t} : HeapLess(t, u)

\* k free slots (told apart by their negative idx, all reported as -1).
HeapInit(k) == {[score |-> NegInf, idx |-> 0 - j] : j \in 1..k}

RECURSIVE HeapScan(_, _, _, _)
HeapScan(index, qn, p, H) ==
    IF p >= Ntotal(index) \/ H = {} THEN H
    ELSE LET cand == [score |-> Dot(index.vecs[p + 1], qn), idx |-> p]
             top == HeapTop(H)
         IN IF top.score < cand.score
            THEN HeapScan(index, qn, p + 1, (H \ {top}) \cup {cand})
            ELSE HeapScan(index, qn, p + 1, H)

RECURSIVE HeapReorder(_)
HeapReorder(H) ==
    IF H = {} THEN <<>>
    ELSE LET top == HeapTop(H)
         IN Append(HeapReorder(H \ {top}),
                   [score |-> top.score, idx |-> IF top.idx < 0 THEN 0 - 1 ELSE top.idx])

\* index.search(query_np, k) for one query row: k (score, idx) pairs.
IndexSearch(index, qn, k) == HeapReorder(HeapScan(index, qn, 0, HeapInit(k)))

(* ------------------------ the persisted artifacts --------------------- *)
(* disk holds, for the configured index name, the vector-store file        *)
(* (<name>.faiss), the id->metadata file (<name>_metadata.json) and the    *)
(* position->id file (<name>_id_mapping.json).  A file is absent, torn or  *)
(* holds the value last written.  Both dicts have string keys and          *)
(* JSON-representable values, so json.load gives back what json.dump was   *)
(* given; read_index gives back d and the rows that write_index stored.    *)

NoIndexFile == [state |-> NoFile, data |-> IndexFlatIP(0)]
NoDictFile == [state |-> NoFile, data |-> EmptyDict]
TornIndexFile == [state |-> Torn, data |-> IndexFlatIP(0)]
TornDictFile == [state |-> Torn, data |-> EmptyDict]
FileOf(data) == [state |-> "Ok", data |-> data]

NoDisk == [index_file |-> NoIndexFile, metadata_file |-> NoDictFile,
           id_mapping_file |-> NoDictFile]

\* faiss.write_index(self.index, self.index_file)
WriteIndex(dk, c) == [dk EXCEPT !.index_file = FileOf(c.index)]

\* json.dump(self.metadata, f) on the metadata file
WriteMetadata(dk, c) == [dk EXCEPT !.metadata_file = FileOf(c.metadata)]

\* json.dump(self.id_mapping, f) on the id-mapping file
WriteIdMapping(dk, c) == [dk EXCEPT !.id_mapping_file = FileOf(c.id_mapping)]

\* As Persist, without the last write.
Persist_NoIdMapping(dk, c) == WriteMetadata(WriteIndex(dk, c), c)

\* The three writes of upsert, in the order of the code.
Persist(dk, c) == WriteIdMapping(WriteMetadata(WriteIndex(dk, c), c), c)

(* ------------------------------ FAISSClient --------------------------- *)
(* An instance is the record of its fields: index (d and the rows),        *)
(* metadata (id -> metadata) and id_mapping (str(position) -> id).         *)

FAISSClient(dimension, index, metadata, id_mapping) ==
    [kind |-> "FAISSClient", dimension |-> dimension, index |-> index,
     metadata |-> metadata, id_mapping |-> id_mapping]

\* vector_client = None
NoClient ==
    [kind |-> None, dimension |-> 0, index |-> IndexFlatIP(0), metadata |-> EmptyDict,
     id_mapping |-> EmptyDict]

\* FAISSClient.__init__: [client, error].  The index file alone decides between
\* loading and starting empty; the two mapping files are opened only after it.
Construct(dk, dimension) ==
    IF dk.index_file.state # NoFile
    THEN IF dk.index_file.state = Torn
         THEN [client |-> NoClient, error |-> "RuntimeError"]
         ELSE IF dk.metadata_file.state = NoFile
         THEN [client |-> NoClient, error |-> "FileNotFoundError"]
         ELSE IF dk.metadata_file.state = Torn
         THEN [client |-> NoClient, error |-> "JSONDecodeError"]
         ELSE IF dk.id_mapping_file.state = NoFile
         THEN [client |-> NoClient, error |-> "FileNotFoundError"]
         ELSE IF dk.id_mapping_file.state = Torn
         THEN [client |-> NoClient, error |-> "JSONDecodeError"]
         ELSE [client |-> FAISSClient(dimension, dk.index_file.data,
                                      dk.metadata_file.data, dk.id_mapping_file.data),
               error |-> None]
    ELSE [client |-> FAISSClient(dimension, IndexFlatIP(dimension), EmptyDict, EmptyDict),
          error |-> None]

\* The loop of upsert over enumerate(vectors), from its i-th round on: every
\* record's metadata and position -> id entry is stored, whatever its embedding.
RECURSIVE UpsertLoop(_, _, _, _)
UpsertLoop(c, vectors, start_idx, i) ==
    IF i >= Len(vectors) THEN c
    ELSE LET vector_id == vectors[i + 1][1]
             metadata == vectors[i + 1][3]
         IN UpsertLoop([c EXCEPT !.metadata = DictSet(@, vector_id, metadata),
                                 !.id_mapping = DictSet(@, Str(start_idx + i), vector_id)],
                       vectors, start_idx, i + 1)

EmbeddingsOf(vectors) == [i \in 1..Len(vectors) |-> vectors[i][2]]

\* upsert up to and including index.add: [client, error].  An error leaves the
\* instance as the loop made it.
UpsertInMemory(c, vectors) ==
    LET looped == UpsertLoop(c, vectors, Ntotal(c.index), 0)
        arr == NpArray(EmbeddingsOf(vectors))
        normed == NormalizeL2(arr.rows)
        added == IndexAdd(looped.index, normed.rows)
    IN IF arr.error # None THEN [client |-> looped, error |-> arr.error]
       ELSE IF normed.error # None THEN [client |-> looped, error |-> normed.error]
       ELSE IF added.error # None THEN [client |-> looped, error |-> added.error]
       ELSE [client |-> [looped EXCEPT !.index = added.index], error |-> None]

\* FAISSClient.upsert as a whole: [client, disk, error].  Nothing is written
\* to disk unless index.add succeeded.
UpsertCall(c, dk, vectors) ==
    LET mem == UpsertInMemory(c, vectors)
    IN [client |-> mem.client,
        disk |-> IF mem.error = None THEN Persist(dk, mem.client) ELSE dk,
        error |-> mem.error]

\* As SearchK, asking for every stored vector.
SearchK_All(top_k, ntotal) == ntotal

\* The k handed to index.search.
SearchK(top_k, ntotal) == Min(top_k, ntotal)

\* One match of query: the id mapped back (the position's own string when the
\* mapping lacks it), the score, and the metadata when the id has any.
Match(c, hit) ==
    LET faiss_idx == Str(hit.idx)
        original_id == DictGet(c.id_mapping, faiss_idx, faiss_idx)
    IN IF original_id \in DOMAIN c.metadata
       THEN [id |-> original_id, score |-> hit.score, metadata |-> c.metadata[original_id]]
       ELSE [id |-> original_id, score |-> hit.score]

\* The result loop of query: stops at the first idx of -1.
RECURSIVE FormatMatches(_, _)
FormatMatches(c, hits) ==
    IF hits = <<>> THEN <<>>
    ELSE IF Head(hits).idx = 0 - 1 THEN <<>>
    ELSE <<Match(c, Head(hits))>> \o FormatMatches(c, Tail(hits))

\* The (score, idx) pairs query gets from index.search.
QueryHits(c, embedding, top_k) ==
    IndexSearch(c.index, Normalize(embedding), SearchK(top_k, Ntotal(c.index)))

\* FAISSClient.query(embedding, top_k) with include_metadata = True.
Query(c, embedding, top_k) ==
    IF Ntotal(c.index) = 0 THEN <<>>
    ELSE FormatMatches(c, QueryHits(c, embedding, top_k))

(* ---------------------------- request values -------------------------- *)

\* The largest number of questions, of one request and of all together.
MaxQuestions == 2

\* The request tasks that may be in flight together.
NumTasks == 2

Tasks == 1..NumTasks

\* settings.TOP_K_RESULTS
TOP_K_RESULTS == 5

\* The explanation calls of one question that raise: none, or the first.
FailingSets == {{}, {1}}

\* The documents a request may name, by the text extraction makes of them:
\* "docA" has one word, "docAB" has 500 words, more than one chunk holds,
\* "docEmpty" has no text, "docBlank" has white space only.
Docs == {"docA", "docAB", "docEmpty", "docBlank"}

\* A str is the sequence of its characters.
Whitespace == {" ", "\n"}

\* The text of "docAB": 300 times the word A, then 200 times the word B, one
\* per line.
DocABText ==
    [k \in 1..(2 * 500 - 1) |->
        IF k % 2 = 0 THEN "\n" ELSE IF (k + 1) \div 2 <= 300 THEN "A" ELSE "B"]

\* The text extract_text returns for a document.
TextOf(doc) ==
    CASE doc = "docA" -> <<"A">>
      [] doc = "docAB" -> DocABText
      [] doc = "docEmpty" -> <<>>
      [] doc = "docBlank" -> <<" ", "\n">>

RECURSIVE LStrip(_)
LStrip(str) ==
    IF str # <<>> /\ Head(str) \in Whitespace THEN LStrip(Tail(str)) ELSE str

RECURSIVE RStrip(_)
RStrip(str) ==
    IF str # <<>> /\ str[Len(str)] \in Whitespace
    THEN RStrip(SubSeq(str, 1, Len(str) - 1))
    ELSE str

\* str.strip()
Strip(str) == RStrip(LStrip(str))

\* The characters str.lower() changes, of those the URLs here are made of.
LowerOf ==
    [c \in {"P", "D", "F", "O", "C", "X", "T"} |->
        CASE c = "P" -> "p" [] c = "D" -> "d" [] c = "F" -> "f" [] c = "O" -> "o"
          [] c = "C" -> "c" [] c = "X" -> "x" [] c = "T" -> "t"]

\* str.lower()
Lower(str) == [i \in 1..Len(str) |-> IF str[i] \in DOMAIN LowerOf THEN LowerOf[str[i]] ELSE str[i]]

\* As EndsWith, looking for the suffix anywhere in the string.
EndsWith_Contains(str, suffix) ==
    \E i \in 1..Len(str) :
        i + Len(suffix) - 1 <= Len(str) /\ SubSeq(str, i, i + Len(suffix) - 1) = suffix

\* str.endswith(suffix)
EndsWith(str, suffix) ==
    /\ Len(suffix) <= Len(str)
    /\ SubSeq(str, Len(str) - Len(suffix) + 1, Len(str)) = suffix

\* The position of the first character of str that is in chars, from position
\* from on; Len(str) + 1 when there is none.
RECURSIVE FindFirst(_, _, _)
FindFirst(str, chars, from) ==
    IF from > Len(str) THEN Len(str) + 1
    ELSE IF str[from] \in chars THEN from
    ELSE FindFirst(str, chars, from + 1)

\* The position of the last "/" of str, 0 when there is none.
RECURSIVE LastSlash(_, _)
LastSlash(str, i) ==
    IF i = 0 THEN 0 ELSE IF str[i] = "/" THEN i ELSE LastSlash(str, i - 1)

\* urlparse(doc_url).path for a URL written from its path on (scheme and host
\* are left out of the strings here): the fragment is cut at "#", the query at
\* "?", and the parameters at the first ";" of the last path segment.
UrlPath(url) ==
    LET noFragment == SubSeq(url, 1, FindFirst(url, {"#"}, 1) - 1)
        noQuery == SubSeq(noFragment, 1, FindFirst(noFragment, {"?"}, 1) - 1)
        semi == FindFirst(noQuery, {";"}, LastSlash(noQuery, Len(noQuery)) + 1)
    IN SubSeq(noQuery, 1, semi - 1)

\* doc_type of run_query: "pdf", "docx", or None when the URL is turned away.
DocType(url) ==
    LET file_path == Lower(UrlPath(url))
    IN IF EndsWith(file_path, <<".", "p", "d", "f">>) THEN "pdf"
       ELSE IF EndsWith(file_path, <<".", "d", "o", "c", "x">>) THEN "docx"
       ELSE None

\* The document URLs of the requests: a plain .pdf; an upper-case .DOCX with a
\* query string; a .Pdf with a fragment; a .pdf with a path parameter; a .txt;
\* a .txt whose query string ends in .pdf; a path with .pdf inside it.
UrlPdf == <<"/", "a", ".", "p", "d", "f">>
UrlDocxQuery == <<"/", "b", ".", "D", "O", "C", "X", "?", "v", "=", ".", "t", "x", "t">>
UrlPdfFragment == <<"/", "e", ".", "P", "d", "f", "#", "p">>
UrlPdfParam == <<"/", "w", ".", "p", "d", "f", ";", "v">>
UrlTxt == <<"/", "a", ".", "t", "x", "t">>
UrlTxtQueryPdf == <<"/", "a", ".", "t", "x", "t", "?", "f", "=", ".", "p", "d", "f">>
UrlPdfInside == <<"/", "a", ".", "p", "d", "f", "/", "x">>

Urls == {UrlPdf, UrlDocxQuery, UrlPdfFragment, UrlPdfParam, UrlTxt, UrlTxtQueryPdf,
         UrlPdfInside}

\* The document behind each URL.
DocAt(url) ==
    CASE url = UrlDocxQuery -> "docAB"
      [] url = UrlPdfFragment -> "docEmpty"
      [] url = UrlPdfParam -> "docBlank"
      [] OTHER -> "docA"

Questions == {"q1", "q2"}

\* The question lists of a request: no question twice, and "q1" last (none,
\* "q1" alone, or "q2" then "q1").
QuestionLists ==
    {q \in SeqsUpTo(Questions, MaxQuestions) :
        /\ \A i, j \in 1..Len(q) : q[i] = q[j] => i = j
        /\ q # <<>> => q[Len(q)] = "q1"}

\* The embedding provider, a function of the text: the chunks "A" and "AA"
\* and question "q1" embed alike, so do "B", "AB" and "q2".
Embed(text) == IF text \in {"A", "AA", "q1"} THEN V1 ELSE V2

NoAnswered ==
    [answer |-> [question |-> "", context |-> <<>>], rationale |-> [provider |-> "", n |-> 0]]

\* The calls a request has made so far: extract_text, chunk_text,
\* get_embeddings_batch, vector_client.upsert, get_embedding,
\* vector_client.query, generate_intelligent_answer, create_clause_explanations.
NoCalls ==
    [extract |-> 0, chunk |-> 0, embed_batch |-> 0, upsert |-> 0, qembed |-> 0,
     query |-> 0, generate |-> 0, explain |-> 0]

\* A task before its request arrives.  Beside the locals of run_query it
\* keeps the request (url, questions), the response (status, results), the
\* error that ended it, the calls it made, and per answered question the
\* matches and the explanation calls that raised (log).
IdleTask ==
    [pc |-> "idle", chunks |-> <<>>, questions |-> <<>>, chunk_embeddings |-> <<>>,
     start_idx |-> 0, qi |-> 0, matches |-> <<>>, answered |-> NoAnswered,
     results |-> <<>>, status |-> 0, url |-> <<>>, error |-> None, calls |-> NoCalls,
     log |-> <<>>]

(* ------------------------------ chunker ------------------------------- *)

\* Bounds of the chunker inputs: the longest text in characters, the largest
\* size and overlap argument, and the number of chunks after which a loop
\* that is still running is no longer followed (a call that returns makes
\* at most (MaxText + 1) \div 2 chunks, which is below it).
MaxText == 7
MaxSize == 3
MaxChunks == 5

CHUNK_SIZE == 300
CHUNK_OVERLAP == 50

\* The characters of the texts: two letters and a blank.
ChunkChars == {"a", "b", " "}

\* A text of 500 one-character words, all different, with one blank between
\* neighbours; the k-th word is the character named k.
ScenarioText == [k \in 1..(2 * 500 - 1) |-> IF k % 2 = 1 THEN ToString((k + 1) \div 2) ELSE " "]

\* The maximal runs of non-whitespace characters of text[lo..hi], in order:
\* those of the two halves, the run that crosses the middle made one.
RECURSIVE SplitRange(_, _, _)
SplitRange(text, lo, hi) ==
    IF lo > hi THEN <<>>
    ELSE IF lo = hi THEN (IF text[lo] \in Whitespace THEN <<>> ELSE << <<text[lo]>> >>)
    ELSE LET mid == (lo + hi) \div 2
             left == SplitRange(text, lo, mid)
             right == SplitRange(text, mid + 1, hi)
         IN  IF text[mid] \notin Whitespace /\ text[mid + 1] \notin Whitespace
             THEN SubSeq(left, 1, Len(left) - 1)
                  \o <<left[Len(left)] \o right[1]>>
                  \o Tail(right)
             ELSE left \o right

\* text.split()
Split(text) == SplitRange(text, 1, Len(text))

\* The words chunk[lo..hi] with one blank between neighbours.
RECURSIVE JoinRange(_, _, _)
JoinRange(chunk, lo, hi) ==
    IF lo > hi THEN <<>>
    ELSE IF lo = hi THEN chunk[lo]
    ELSE LET mid == (lo + hi) \div 2
         IN  JoinRange(chunk, lo, mid) \o <<" ">> \o JoinRange(chunk, mid + 1, hi)

\* " ".join(chunk)
Join(chunk) == JoinRange(chunk, 1, Len(chunk))

\* A slice bound as Python reads it: a negative bound counts from the end,
\* and the result is clamped to 0..n.
SliceBound(b, n) ==
    IF b < 0 THEN (IF b + n < 0 THEN 0 ELSE b + n) ELSE Min(b, n)

\* words[start:end], with start and end counted from 0.
PySlice(words, start, end) ==
    SubSeq(words, SliceBound(start, Len(words)) + 1, SliceBound(end, Len(words)))

\* start += size - overlap
Advance_NoOverlap(start, size, overlap) == start + size

Advance(start, size, overlap) == start + size - overlap

\* The chunker: where the call of chunk_text is, its arguments after
\* text.split(), its locals, and what it returned or raised.
Chunker(pc, words, size, overlap, start, chunks, result, error) ==
    [pc |-> pc, words |-> words, size |-> size, overlap |-> overlap, start |-> start,
     chunks |-> chunks, result |-> result, error |-> error]

NoChunker == Chunker("idle", <<>>, 0, 0, 0, <<>>, <<>>, None)

\* The while loop of chunk_text from start on, for size > overlap.
RECURSIVE ChunkLoop(_, _, _, _, _)
ChunkLoop(words, size, overlap, start, chunks) ==
    IF start < Len(words)
    THEN LET end == Min(start + size, Len(words))
         IN  ChunkLoop(words, size, overlap, Advance(start, size, overlap),
                       Append(chunks, Join(PySlice(words, start, end))))
    ELSE chunks

\* chunk_text(text, size, overlap), for size > overlap.
ChunkText(text, size, overlap) ==
    LET words == Split(text)
    IN  IF words = <<>> THEN <<>> ELSE ChunkLoop(words, size, overlap, 0, <<>>)

\* The requests keep a chunk by a short name in place of its text: a chunk of
\* one word by the word, a longer one by its first and last word.
ChunkName(chunk) ==
    LET words == Split(chunk)
        first == words[1]
        last == words[Len(words)]
    IN  IF Len(words) = 1 THEN first[1]
        ELSE CASE first = <<"A">> /\ last = <<"A">> -> "AA"
               [] first = <<"A">> /\ last = <<"B">> -> "AB"
               [] first = <<"B">> /\ last = <<"B">> -> "BB"

\* chunks of run_query, per document: chunk_text(text, settings.CHUNK_SIZE,
\* settings.CHUNK_OVERLAP) of the text of the document.
DocChunks ==
    [doc \in Docs |->
        LET chunks == ChunkText(TextOf(doc), CHUNK_SIZE, CHUNK_OVERLAP)
        IN  [i \in 1..Len(chunks) |-> ChunkName(chunks[i])]]

ChunksOf(doc) == DocChunks[doc]

(* ----------------------------- embeddings ----------------------------- *)

\* The longest list of texts get_embeddings_batch is called with.
MaxTexts == 3

\* The provider names a call can carry: the three the engine knows and one
\* it does not.
Providers == {"openai", "gemini", "deepseek", "cohere"}

\* The providers whose API key is set in the environment, any subset of the
\* three keys the module reads (openai_client exists exactly when
\* OPENAI_API_KEY is set).
KeySets == SUBSET {"openai", "gemini", "deepseek"}

\* The branch tests of get_embedding: the provider is one of the three and
\* its key (its client) is there.
Available(provider, keys) ==
    provider \in {"openai", "gemini", "deepseek"} /\ provider \in keys

\* The first branch test of get_embeddings_batch.
UsesOpenAIBatch(provider, keys) == provider = "openai" /\ "openai" \in keys

\* get_embedding(text, provider) once its coroutine runs: without a usable
\* provider it raises ValueError and calls nothing; otherwise it makes one
\* backend call, which answers with the embedding of the text (ok) or fails.
GetEmbedding(text, provider, keys, ok) ==
    IF ~Available(provider, keys)
    THEN [error |-> "ValueError", value |-> <<>>, backend_calls |-> 0]
    ELSE IF ok
    THEN [error |-> None, value |-> Embed(text), backend_calls |-> 1]
    ELSE [error |-> "BackendError", value |-> <<>>, backend_calls |-> 1]

\* As GatherResult, with the results in the order the calls completed.
GatherResult_CompletionOrder(values, done_order) ==
    [k \in 1..Len(done_order) |-> values[done_order[k]]]

\* What asyncio.gather returns once every awaitable is done: the results in
\* the order of the awaitables it was given.
GatherResult(values, done_order) == values

\* As GatherRaises, for gather(..., return_exceptions=True): exceptions stay
\* in the result list.
GatherRaises_ReturnExceptions(error) == FALSE

\* Whether asyncio.gather passes the exception of an awaitable on to its
\* caller (return_exceptions is left at False).
GatherRaises(error) == error # None

\* A callback in the ready queue of the event loop: the first step of the
\* task of get_embedding number item ("start"), the step of that task that
\* its backend's answer wakes ("step"), gather's _done_callback for that task
\* ("done"), or the step that resumes the task of run_query, suspended in
\* gather ("wakeup", item 0).
Handle(kind, item) == [kind |-> kind, item |-> item]

\* The outer future of gather: pending, or set with a result list or with an
\* exception.
Outer(state, result, error) == [state |-> state, result |-> result, error |-> error]

\* The embedder: where the call of get_embedding (fn "one") or
\* get_embeddings_batch (fn "batch") is, its arguments, the API keys of the
\* environment, per text the state of its get_embedding call, its value and
\* its exception, the order in which those calls ended, what the call
\* returned or raised, the number of backend calls made, and for run_query
\* as the caller of a batch: where it went on ("upsert", "except") and its
\* vectors_to_upsert.  For the OpenAI branch: response.data of the one
\* call.  For a gather: the number of coroutines that have made their first
\* step, nfinished and the outer future of asyncio.gather, the callbacks the
\* event loop runs in its current turn (ready) and those scheduled for the
\* next (scheduled), both first in first out.
Embedder(pc, fn, provider, keys, texts) ==
    [pc |-> pc, fn |-> fn, provider |-> provider, keys |-> keys, texts |-> texts,
     items |-> [i \in 1..Len(texts) |-> "pending"],
     values |-> [i \in 1..Len(texts) |-> <<>>],
     errors |-> [i \in 1..Len(texts) |-> None],
     done_order |-> <<>>, result |-> <<>>, error |-> None, backend_calls |-> 0,
     caller |-> "waiting", vectors_to_upsert |-> <<>>,
     response |-> <<>>,
     started |-> 0, nfinished |-> 0, outer |-> Outer("pending", <<>>, None),
     ready |-> <<>>, scheduled |-> <<>>]

NoEmbedding == Embedder("idle", "none", "none", {}, <<>>)

(* ------------------------------- state -------------------------------- *)

VARIABLES
    proc,           \* "down" or "up": whether the service process runs
    vector_client,  \* the module-level vector_client of endpoints.py
    disk,           \* the three persisted artifacts of the index name
    lastOp,         \* the last operation and what it returned or raised
    crash,          \* the upsert the last crash cut short: disk before, disk had it finished
    tasks,          \* per request task of run_query: its position and its locals
    running,        \* the task that holds the event loop, 0 when none does
    env,            \* the process environment: the libraries importable, PINECONE_API_KEY,
                    \* the length of the vectors of the embedding provider of the run
    remote,         \* the managed index service: its indexes and the ids written
    trace,          \* the last factory or managed-index call: its remote calls, its outcome
    chunker,        \* a call of chunk_text: its arguments, its locals, its result
    embedder        \* a call of get_embedding or get_embeddings_batch and its per-item calls

backendVars == <<env, remote, trace>>

libVars == <<chunker, embedder>>

vars == <<proc, vector_client, disk, lastOp, crash, tasks, running, env, remote, trace,
          chunker, embedder>>

\* An environment without the managed index: no PINECONE_API_KEY; the
\* vectors of the embedding provider have the length of the index.
LocalEnv ==
    [PINECONE_AVAILABLE |-> TRUE, FAISS_AVAILABLE |-> TRUE, api_key |-> None,
     embedding_dimension |-> Dim]

\* The managed index service with no index in it.
NoRemote == [indexes |-> EmptyDict, written |-> {}]

\* trace: the operation, its input records, the remote calls it made in
\* order, the exception it raised (None: it returned), the records it told
\* its caller had failed, and for the factory the remote call that was going
\* to raise and whether the index name existed before.
Trace(op, input, calls, error, failed_records, fault, existed) ==
    [op |-> op, input |-> input, calls |-> calls, error |-> error,
     failed_records |-> failed_records, fault |-> fault, existed |-> existed]

NoTrace == Trace("init", <<>>, <<>>, None, <<>>, None, FALSE)

NoCrash == [happened |-> FALSE, pre |-> NoDisk, post |-> NoDisk]

\* Whether some record of the call has an embedding of another length than
\* the index dimension.
HasMismatch(c, vectors) == \E i \in 1..Len(vectors) : Len(vectors[i][2]) # c.index.d

\* lastOp: the operation, the exception it raised (None: it returned), what it
\* returned, whether an upsert's input had a mismatching embedding, and the
\* top_k of a query (0 otherwise).
Op(op, error, out, mismatch, top_k) ==
    [op |-> op, error |-> error, out |-> out, mismatch |-> mismatch, top_k |-> top_k]

Init ==
    /\ proc = "down"
    /\ vector_client = NoClient
    /\ disk = NoDisk
    /\ lastOp = Op("init", None, <<>>, FALSE, 0)
    /\ crash = NoCrash
    /\ tasks = [t \in Tasks |-> IdleTask]
    /\ running = 0
    /\ env = LocalEnv
    /\ remote = NoRemote
    /\ trace = NoTrace
    /\ chunker = NoChunker
    /\ embedder = NoEmbedding

(* ------------------------- the index, call by call -------------------- *)

\* Process start: endpoints.py builds vector_client once, from the artifacts on
\* disk; a constructor that raises leaves vector_client = None.
StartWith(dimension) ==
    /\ proc = "down"
    /\ proc' = "up"
    /\ \E r \in {Construct(disk, dimension)} :
          /\ vector_client' = r.client
          /\ lastOp' = Op("construct", r.error, <<>>, FALSE, 0)
    /\ UNCHANGED <<disk, crash, tasks, running>>
    /\ UNCHANGED <<backendVars, libVars>>

\* The start with the one configured dimension of all runs.
Start == StartWith(Dim)

\* The process ends between two calls: the instance is gone, the files stay.
Stop ==
    /\ proc = "up"
    /\ proc' = "down"
    /\ vector_client' = NoClient
    /\ lastOp' = Op("stop", None, <<>>, FALSE, 0)
    /\ crash' = NoCrash
    /\ trace' = NoTrace
    /\ UNCHANGED <<disk, tasks, running, env, remote>>
    /\ UNCHANGED libVars

\* vector_client.upsert(vectors), run to its end or to the exception it raises.
Upsert(vectors) ==
    /\ proc = "up"
    /\ vector_client.kind = "FAISSClient"
    /\ Ntotal(vector_client.index) + Len(vectors) <= MaxVectors
    /\ \E r \in {UpsertCall(vector_client, disk, vectors)} :
          /\ vector_client' = r.client
          /\ disk' = r.disk
          /\ lastOp' = Op("upsert", r.error, <<>>, HasMismatch(vector_client, vectors), 0)
    /\ crash' = NoCrash
    /\ UNCHANGED <<proc, tasks, running>>
    /\ UNCHANGED <<backendVars, libVars>>

\* What query raises: index.search asserts that the query has the dimension
\* of the index; an empty index returns [] before that.
QueryError(c, embedding) ==
    IF Ntotal(c.index) = 0 THEN None
    ELSE IF Len(embedding) # c.index.d THEN "AssertionError"
    ELSE None

\* vector_client.query(embedding, top_k)
DoQuery(embedding, top_k) ==
    /\ proc = "up"
    /\ vector_client.kind = "FAISSClient"
    /\ \E error \in {QueryError(vector_client, embedding)} :
          lastOp' = Op("query", error,
                       IF error = None THEN Query(vector_client, embedding, top_k) ELSE <<>>,
                       FALSE, top_k)
    /\ crash' = NoCrash
    /\ UNCHANGED <<proc, vector_client, disk, tasks, running>>
    /\ UNCHANGED <<backendVars, libVars>>

\* The disk when the process stops inside the persisting part of an upsert:
\* point 0 before write_index, 1 inside it, 2 after it, 3 inside the metadata
\* dump, 4 after it, 5 inside the id-mapping dump.
CrashPoints == 0..5

DiskAt(dk, c, point) ==
    CASE point = 0 -> dk
      [] point = 1 -> [dk EXCEPT !.index_file = TornIndexFile]
      [] point = 2 -> WriteIndex(dk, c)
      [] point = 3 -> [WriteIndex(dk, c) EXCEPT !.metadata_file = TornDictFile]
      [] point = 4 -> WriteMetadata(WriteIndex(dk, c), c)
      [] point = 5 -> [WriteMetadata(WriteIndex(dk, c), c) EXCEPT
                           !.id_mapping_file = TornDictFile]

\* The process stops inside an upsert whose index.add has succeeded.
CrashInUpsert(vectors, point) ==
    /\ proc = "up"
    /\ vector_client.kind = "FAISSClient"
    /\ Ntotal(vector_client.index) + Len(vectors) <= MaxVectors
    /\ \E mem \in {UpsertInMemory(vector_client, vectors)} :
          /\ mem.error = None
          /\ disk' = DiskAt(disk, mem.client, point)
          /\ crash' = [happened |-> TRUE, pre |-> disk, post |-> Persist(disk, mem.client)]
    /\ proc' = "down"
    /\ vector_client' = NoClient
    /\ lastOp' = Op("crash", None, <<>>, FALSE, 0)
    /\ UNCHANGED <<tasks, running>>
    /\ UNCHANGED <<backendVars, libVars>>

Artifacts == {"index_file", "metadata_file", "id_mapping_file"}

\* While the process is down, one of the artifacts is removed from the
\* directory (the files are plain files in the working directory).
RemoveArtifact(f) ==
    /\ proc = "down"
    /\ disk[f].state # NoFile
    /\ disk' = [disk EXCEPT ![f] = IF f = "index_file" THEN NoIndexFile ELSE NoDictFile]
    /\ lastOp' = Op("remove", None, <<>>, FALSE, 0)
    /\ crash' = NoCrash
    /\ UNCHANGED <<proc, vector_client, tasks, running>>
    /\ UNCHANGED <<backendVars, libVars>>

QueryVecs == {V1, V2}

\* The index used call by call within and across process runs.
Next ==
    \/ Start
    \/ Stop
    \/ \E vectors \in Batches : Upsert(vectors)
    \/ \E q \in QueryVecs, k \in 1..MaxTopK : DoQuery(q, k)

Spec == Init /\ [][Next]_vars

\* The dimensions the service is configured with from one run to the next
\* (EMBEDDING_DIMENSION): that of V1 and V2, and that of VBad.
Dimensions == {Dim, Len(VBad)}

\* The index used call by call across process runs whose configured
\* dimension changes; queries and records come in both dimensions.
NextDim ==
    \/ \E dimension \in Dimensions : StartWith(dimension)
    \/ Stop
    \/ \E vectors \in Batches : Upsert(vectors)
    \/ \E q \in QueryVecs \cup {VBad}, k \in 1..MaxTopK : DoQuery(q, k)

SpecDim == Init /\ [][NextDim]_vars

\* The same with the process stopping inside upserts and artifacts removed
\* while it is down; every upsert call here carries one record.
OneRecordBatches == {b \in Batches : Len(b) = 1}

NextCrash ==
    \/ Start
    \/ Stop
    \/ \E vectors \in OneRecordBatches : Upsert(vectors)
    \/ \E vectors \in OneRecordBatches, point \in CrashPoints : CrashInUpsert(vectors, point)
    \/ \E f \in Artifacts : RemoveArtifact(f)

SpecCrash == Init /\ [][NextCrash]_vars

(* ------------------------ run_query, task by task --------------------- *)
(* Every request is served by a task on the one event loop.  A task runs   *)
(* from one await to the next without giving the loop up; running names    *)
(* the task that holds the loop.  The statements of FAISSClient.upsert are *)
(* taken one step each, so that what may run between them is decided by    *)
(* where the code suspends and by nothing else.                            *)

UpsertPcs ==
    {"upsert_start", "upsert_loop", "upsert_add", "write_index", "write_metadata",
     "write_id_mapping"}

\* As Suspends, with every position a suspension point.
Suspends_Everywhere(pc) == TRUE

\* The positions at which a task does not hold the event loop: before its
\* request, at the awaits of run_query, and after its response.
Suspends(pc) ==
    pc \in {"idle", "await_embed", "await_qembed", "await_answer", "await_explain",
            "completed", "failed"}

MayRun(t) == running = t \/ (running = 0 /\ Suspends(tasks[t].pc))

\* Task t goes on as r2.
Goto(t, r2) ==
    /\ tasks' = [tasks EXCEPT ![t] = r2]
    /\ running' = IF Suspends(r2.pc) THEN 0 ELSE t

\* run_query is left: the locals of the call are gone, the response stays
\* (chunks, questions and qi are kept as the record of what the request did).
Return(r, pc, status, results) ==
    [r EXCEPT !.pc = pc, !.status = status, !.results = results,
              !.chunk_embeddings = <<>>, !.start_idx = 0, !.matches = <<>>,
              !.answered = NoAnswered]

\* As Fail, answering 200 with the answers built so far.
Fail_PartialAnswers(r, error) ==
    [Return(r, "completed", 200, r.results) EXCEPT !.error = error]

\* The except clause of run_query: any exception raised inside the try,
\* the HTTPException(422) of the handler itself included, ends the request
\* with HTTPException(500) and no answers.
Fail(r, error) ==
    [Return(r, "failed", 500, <<>>) EXCEPT !.error = error, !.log = <<>>]

\* The else branch of the extension test, before the try: HTTPException(400).
Reject(r) == [Return(r, "failed", 400, <<>>) EXCEPT !.error = "UnsupportedUrl"]

\* The task has made one more call of the kind.
Called(r, kind) == [r EXCEPT !.calls[kind] = @ + 1]

\* vectors_to_upsert: (str(idx), emb, {"text": chunks[idx]}) per chunk.
VectorsToUpsert(r) ==
    [i \in 1..Len(r.chunk_embeddings) |->
        <<Str(i - 1), r.chunk_embeddings[i], [text |-> r.chunks[i]]>>]

RECURSIVE AcceptedUpTo(_)
\* The chunks and questions of the requests accepted so far, tasks 1..n.
AcceptedUpTo(n) ==
    IF n = 0 THEN [chunks |-> 0, questions |-> 0]
    ELSE [chunks |-> AcceptedUpTo(n - 1).chunks + Len(tasks[n].chunks),
          questions |-> AcceptedUpTo(n - 1).questions + Len(tasks[n].questions)]

\* The request arrives: the extension test on the URL, extraction (ok: it
\* returned), the test for text, chunking, up to the await of
\* get_embeddings_batch.  Tasks are numbered in order of arrival;
\* the requests together stay within MaxVectors chunks and MaxQuestions
\* questions.
\* extract_text has been called (extracting) and ends: it returned (ok) or
\* raised; then the test for text, chunking, up to the await of
\* get_embeddings_batch.
AfterExtraction(extracting, doc, ok) ==
    LET chunking == Called(extracting, "chunk")
    IN IF ~ok THEN Fail(extracting, "ExtractionError")
       ELSE IF Strip(TextOf(doc)) = <<>> THEN Fail(extracting, "NoContent")
       ELSE IF ChunksOf(doc) = <<>> THEN Fail(chunking, "NoChunks")
       ELSE [Called(chunking, "embed_batch") EXCEPT
                !.pc = "await_embed", !.chunks = ChunksOf(doc)]

FromExtraction(r, doc, ok) == AfterExtraction(Called(r, "extract"), doc, ok)

Accept(t, url, questions, ok) ==
    /\ proc = "up"
    /\ tasks[t].pc = "idle"
    /\ \A u \in Tasks : u < t => tasks[u].pc # "idle"
    /\ AcceptedUpTo(NumTasks).chunks + Len(ChunksOf(DocAt(url))) <= MaxVectors
    /\ AcceptedUpTo(NumTasks).questions + Len(questions) <= MaxQuestions
    /\ MayRun(t)
    /\ \E r \in {[tasks[t] EXCEPT !.url = url, !.questions = questions]} :
       \E checked \in {IF DocType(url) = None THEN Reject(r) ELSE [r EXCEPT !.pc = "extract"]} :
          Goto(t, IF checked.pc = "extract"
                  THEN FromExtraction(checked, DocAt(url), ok)
                  ELSE checked)
    /\ UNCHANGED <<proc, vector_client, disk, lastOp, crash>>
    /\ UNCHANGED <<backendVars, libVars>>

\* What the embedding provider of the run gives for a text: a vector of the
\* provider's length, which need not be the dimension the index was made
\* with (settings.EMBEDDING_DIMENSION).
ProviderEmbed(text) == SubSeq(Embed(text), 1, env.embedding_dimension)

\* get_embeddings_batch returns (ok) or raises; then the vector_client test.
EmbedDone(t, ok) ==
    /\ tasks[t].pc = "await_embed"
    /\ MayRun(t)
    /\ Goto(t, IF ~ok THEN Fail(tasks[t], "EmbeddingError")
               ELSE IF vector_client.kind = None THEN Fail(tasks[t], "IndexUnavailable")
               ELSE [Called(tasks[t], "upsert") EXCEPT
                       !.pc = "upsert_start",
                       !.chunk_embeddings = [i \in 1..Len(tasks[t].chunks) |->
                                               ProviderEmbed(tasks[t].chunks[i])]])
    /\ UNCHANGED <<proc, vector_client, disk, lastOp, crash>>
    /\ UNCHANGED <<backendVars, libVars>>

\* Where a task goes after its upsert: the first question, or the response.
AfterUpsert(r) ==
    IF r.questions = <<>>
    THEN Return(r, "completed", 200, r.results)
    ELSE [Called(r, "qembed") EXCEPT !.pc = "await_qembed", !.qi = 1]

\* One statement of vector_client.upsert(vectors_to_upsert) in task t.
UpsertStep(t) ==
    /\ tasks[t].pc \in UpsertPcs
    /\ MayRun(t)
    /\ \E r \in {tasks[t]}, vectors \in {VectorsToUpsert(tasks[t])} :
        CASE r.pc = "upsert_start" ->
               /\ Goto(t, [r EXCEPT !.pc = "upsert_loop",
                                    !.start_idx = Ntotal(vector_client.index)])
               /\ UNCHANGED <<vector_client, disk>>
          [] r.pc = "upsert_loop" ->
               /\ vector_client' = UpsertLoop(vector_client, vectors, r.start_idx, 0)
               /\ Goto(t, [r EXCEPT !.pc = "upsert_add"])
               /\ UNCHANGED disk
          [] r.pc = "upsert_add" ->
               \E arr \in {NpArray(EmbeddingsOf(vectors))} :
               \E normed \in {NormalizeL2(arr.rows)} :
               \E added \in {IndexAdd(vector_client.index, normed.rows)} :
                  IF arr.error # None \/ normed.error # None \/ added.error # None
                  THEN /\ Goto(t, Fail(r, "IndexingError"))
                       /\ UNCHANGED <<vector_client, disk>>
                  ELSE /\ vector_client' = [vector_client EXCEPT !.index = added.index]
                       /\ Goto(t, [r EXCEPT !.pc = "write_index"])
                       /\ UNCHANGED disk
          [] r.pc = "write_index" ->
               /\ disk' = WriteIndex(disk, vector_client)
               /\ Goto(t, [r EXCEPT !.pc = "write_metadata"])
               /\ UNCHANGED vector_client
          [] r.pc = "write_metadata" ->
               /\ disk' = WriteMetadata(disk, vector_client)
               /\ Goto(t, [r EXCEPT !.pc = "write_id_mapping"])
               /\ UNCHANGED vector_client
          [] r.pc = "write_id_mapping" ->
               /\ disk' = WriteIdMapping(disk, vector_client)
               /\ Goto(t, AfterUpsert(r))
               /\ UNCHANGED vector_client
    /\ UNCHANGED <<proc, lastOp, crash>>
    /\ UNCHANGED <<backendVars, libVars>>

\* [match['metadata']['text'] for match in matches]
RelevantChunks(matches) == [i \in 1..Len(matches) |-> matches[i].metadata.text]

\* relevant_chunks[:3]
Top3(chunks) == SubSeq(chunks, 1, Min(3, Len(chunks)))

\* get_embedding(question) returns (ok) or raises; then the index query and
\* the chunk texts of the matches (KeyError for a match without metadata).
QEmbedDone(t, ok) ==
    /\ tasks[t].pc = "await_qembed"
    /\ MayRun(t)
    /\ \E r \in {tasks[t]} :
       \E matches \in {IF ok /\ vector_client.kind # None
                        THEN Query(vector_client, ProviderEmbed(r.questions[r.qi]), TOP_K_RESULTS)
                        ELSE <<>>} :
          Goto(t, IF ~ok THEN Fail(r, "QuestionEmbeddingError")
                  ELSE IF vector_client.kind = None
                          \/ \E i \in 1..Len(matches) : "metadata" \notin DOMAIN matches[i]
                  THEN Fail(Called(r, "query"), "QueryError")
                  ELSE [Called(Called(r, "query"), "generate") EXCEPT
                           !.pc = "await_answer", !.matches = matches])
    /\ UNCHANGED <<proc, vector_client, disk, lastOp, crash>>
    /\ UNCHANGED <<backendVars, libVars>>

\* generate_intelligent_answer: the generation collaborator's text for the
\* question and its context, and the rationale naming provider and count.
GenerateAnswer(question, relevant_chunks) ==
    [answer |-> [question |-> question, context |-> relevant_chunks],
     rationale |-> [provider |-> "GEMINI", n |-> Len(relevant_chunks)]]

\* generate_intelligent_answer returns (ok) or raises.
AnswerDone(t, ok) ==
    /\ tasks[t].pc = "await_answer"
    /\ MayRun(t)
    /\ \E r \in {tasks[t]} :
          Goto(t, IF ~ok THEN Fail(r, "GenerationError")
                  ELSE [Called(r, "explain") EXCEPT
                          !.pc = "await_explain",
                          !.answered = GenerateAnswer(r.questions[r.qi],
                                                      Top3(RelevantChunks(r.matches)))])
    /\ UNCHANGED <<proc, vector_client, disk, lastOp, crash>>
    /\ UNCHANGED <<backendVars, libVars>>

\* f"{score:.3f}": the score in thousandths, rounded (a score is a count of
\* 1/(Unit*Unit)).
Fmt3(score) == (2 * 1000 * score + Unit * Unit) \div (2 * Unit * Unit)

\* The explanation of one clause: "Semantic similarity score: <score> - ..."
\* when the generation call raised, "Relevance score: <score> - <generated
\* for the question>" when it returned.
Explanation(score, question, raised) ==
    [fallback |-> raised, score |-> Fmt3(score),
     question |-> IF raised THEN "" ELSE question]

\* As ClauseExplanations, leaving out the clauses whose call raised.
ClauseExplanations_SkipFailed(chunks, scores, question, failing) ==
    LET RECURSIVE From(_)
        From(i) ==
            IF i > Min(Len(chunks), Len(scores)) THEN <<>>
            ELSE (IF i \in failing THEN <<>>
                  ELSE <<[text |-> chunks[i],
                          explanation |-> Explanation(scores[i], question, FALSE)]>>)
                 \o From(i + 1)
    IN From(1)

\* create_clause_explanations: one clause per (chunk, score); the calls in
\* failing raised and their clauses get the fallback text with the score.
ClauseExplanations(chunks, scores, question, failing) ==
    [i \in 1..Min(Len(chunks), Len(scores)) |->
        [text |-> chunks[i],
         explanation |-> Explanation(scores[i], question, i \in failing)]]

\* As AppendAnswer, at the front of the list.
AppendAnswer_Prepend(results, answer) == <<answer>> \o results

\* results.append(Answer(...))
AppendAnswer(results, answer) == Append(results, answer)

\* create_clause_explanations returns; the Answer is appended; the loop goes
\* to the next question or run_query returns the response.
ExplainDone(t, failing) ==
    /\ tasks[t].pc = "await_explain"
    /\ MayRun(t)
    /\ failing \subseteq 1..Len(tasks[t].matches)
    /\ \E r \in {tasks[t]} :
       \E answer \in {[answer |-> r.answered.answer,
                        clauses |-> ClauseExplanations(
                                        RelevantChunks(r.matches),
                                        [i \in 1..Len(r.matches) |-> r.matches[i].score],
                                        r.questions[r.qi], failing),
                        decision_rationale |-> r.answered.rationale]} :
       \E logged \in {[r EXCEPT !.log = Append(@, [matches |-> r.matches,
                                                     failing |-> failing])]} :
          Goto(t, IF r.qi = Len(r.questions)
                  THEN Return(logged, "completed", 200, AppendAnswer(r.results, answer))
                  ELSE [Called(logged, "qembed") EXCEPT
                           !.pc = "await_qembed", !.qi = r.qi + 1,
                           !.results = AppendAnswer(r.results, answer)])
    /\ UNCHANGED <<proc, vector_client, disk, lastOp, crash>>
    /\ UNCHANGED <<backendVars, libVars>>

\* The end of create_vector_client, reached when the managed client is not
\* wanted or could not be built: a FAISSClient when faiss is importable,
\* RuntimeError otherwise.  [client, error].
LocalFallback(e, dk, dimension) ==
    IF e.FAISS_AVAILABLE
    THEN Construct(dk, dimension)
    ELSE [client |-> NoClient, error |-> "RuntimeError"]

\* The process is up in environment e, which has no PINECONE_API_KEY, on an
\* empty directory: endpoints.py has built the vector_client with the
\* factory, or has caught the RuntimeError of the factory (faiss is not
\* importable) and kept vector_client = None.
InitRun(e) ==
    /\ proc = "up"
    /\ e.api_key = None
    /\ \E made \in {LocalFallback(e, NoDisk, Dim)} :
          /\ vector_client = made.client
          /\ lastOp = Op("construct", made.error, <<>>, FALSE, 0)
    /\ disk = NoDisk
    /\ crash = NoCrash
    /\ tasks = [t \in Tasks |-> IdleTask]
    /\ running = 0
    /\ env = e
    /\ remote = NoRemote
    /\ trace = NoTrace
    /\ chunker = NoChunker
    /\ embedder = NoEmbedding

\* The process is up with the vector_client built on an empty directory and
\* an embedding provider that gives vectors of the length of the index.
InitReq == InitRun(LocalEnv)

\* As InitReq, or faiss is not importable and the factory has raised, or the
\* provider gives vectors of another length than the index has.
InitWritePath ==
    \E faiss \in BOOLEAN, d \in Dimensions :
        InitRun([LocalEnv EXCEPT !.FAISS_AVAILABLE = faiss, !.embedding_dimension = d])

NextReq ==
    \E t \in Tasks :
        \/ \E url \in Urls, questions \in QuestionLists, ok \in BOOLEAN :
              Accept(t, url, questions, ok)
        \/ \E ok \in BOOLEAN : EmbedDone(t, ok)
        \/ UpsertStep(t)
        \/ \E ok \in BOOLEAN : QEmbedDone(t, ok)
        \/ \E ok \in BOOLEAN : AnswerDone(t, ok)
        \/ \E failing \in FailingSets : ExplainDone(t, failing)

SpecReq == InitReq /\ [][NextReq]_vars

\* The requests of a run in which the index can be missing or refuse the
\* vectors.
SpecWritePath == InitWritePath /\ [][NextReq]_vars

(* -------------------- the factory and the managed index --------------- *)
(* create_vector_client at process start, PineconeClient against the      *)
(* managed index service, and the calls of one process run on whichever   *)
(* client the factory gave.  The service is known by the calls made on it: *)
(* its indexes by name, and the ids of the records it has accepted.        *)

\* The largest number of remote upsert calls of one PineconeClient.upsert.
MaxRemoteCalls == 3

\* chunk_size of PineconeClient.upsert
chunk_size == 100

\* The dimension= argument of the create_index call.
create_index_dimension == 1536

\* settings.VECTOR_INDEX_NAME
VECTOR_INDEX_NAME == "policy-index"

\* The environments a process may start in.
Envs ==
    [PINECONE_AVAILABLE : BOOLEAN, FAISS_AVAILABLE : BOOLEAN, api_key : {None, "key"},
     embedding_dimension : {Dim}]

\* The remote call of PineconeClient.__init__ that is going to raise, if any.
Faults == {None, "list_indexes", "create_index", "Index"}

RemoteCall(call, name, dimension, metric, vectors) ==
    [call |-> call, name |-> name, dimension |-> dimension, metric |-> metric,
     vectors |-> vectors]

\* vector_client of the PineconeClient class (a handle; the data is remote).
PineconeClient ==
    [kind |-> "PineconeClient", index |-> IndexFlatIP(0), metadata |-> EmptyDict,
     id_mapping |-> EmptyDict]

\* PineconeClient.__init__(index_name): [client, error, remote, calls].
PineconeInit(e, rm, index_name, fault) ==
    LET listing == <<RemoteCall("list_indexes", "", 0, "", <<>>)>>
        absent == index_name \notin DOMAIN rm.indexes
        creating == RemoteCall("create_index", index_name, create_index_dimension,
                               "cosine", <<>>)
        created == [rm EXCEPT !.indexes = DictSet(@, index_name,
                                  [dimension |-> create_index_dimension,
                                   metric |-> "cosine"])]
        handle == RemoteCall("Index", index_name, 0, "", <<>>)
        Raised(calls, r) ==
            [client |-> NoClient, error |-> "PineconeException", remote |-> r, calls |-> calls]
    IN IF e.api_key = None
       THEN [client |-> NoClient, error |-> "ValueError", remote |-> rm, calls |-> <<>>]
       ELSE IF fault = "list_indexes" THEN Raised(listing, rm)
       ELSE IF absent /\ fault = "create_index" THEN Raised(listing \o <<creating>>, rm)
       ELSE LET calls == listing \o (IF absent THEN <<creating>> ELSE <<>>) \o <<handle>>
                after == IF absent THEN created ELSE rm
            IN IF fault = "Index" THEN Raised(calls, after)
               ELSE [client |-> PineconeClient, error |-> None, remote |-> after,
                     calls |-> calls]

\* As PineconeWanted, without the test for the client library.
PineconeWanted_KeyOnly(e) == e.api_key # None

\* if PINECONE_AVAILABLE and api_key
PineconeWanted(e) == e.PINECONE_AVAILABLE /\ e.api_key # None

\* create_vector_client(index_name, dimension): [client, error, remote, calls].
CreateVectorClient(e, rm, dk, index_name, dimension, fault) ==
    LET managed == IF PineconeWanted(e) THEN PineconeInit(e, rm, index_name, fault)
                   ELSE [client |-> NoClient, error |-> "NotTried", remote |-> rm,
                         calls |-> <<>>]
        local == LocalFallback(e, dk, dimension)
    IN IF managed.error = None THEN managed
       ELSE [client |-> local.client, error |-> local.error, remote |-> managed.remote,
             calls |-> managed.calls]

\* Process start in environment e: endpoints.py calls the factory once and
\* keeps vector_client = None when it raises.
Boot(e, fault) ==
    /\ proc = "down"
    /\ proc' = "up"
    /\ env' = e
    /\ \E r \in {CreateVectorClient(e, remote, disk, VECTOR_INDEX_NAME, Dim, fault)} :
          /\ vector_client' = r.client
          /\ remote' = r.remote
          /\ trace' = Trace("construct", <<>>, r.calls, r.error, <<>>, fault,
                            VECTOR_INDEX_NAME \in DOMAIN remote.indexes)
          /\ lastOp' = Op("construct", r.error, <<>>, FALSE, 0)
    /\ UNCHANGED <<disk, crash, tasks, running>>
    /\ UNCHANGED libVars

\* As AfterCall, replacing the managed client by a fresh local one when the
\* call has raised.
AfterCall_Fallback(c, error) ==
    IF error # None /\ c.kind = "PineconeClient"
    THEN FAISSClient(Dim, IndexFlatIP(Dim), EmptyDict, EmptyDict)
    ELSE c

\* run_query uses the module-level vector_client and never assigns it.
AfterCall(c, error) == c

\* As NextStart, leaving one record out between two batches.
NextStart_Skip(i) == i + chunk_size + 1

\* range(0, len(vectors), chunk_size): the start after start i.
NextStart(i) == i + chunk_size

\* vectors[i:i+chunk_size] for i in range(0, len(vectors), chunk_size)
RECURSIVE PcBatches(_, _)
PcBatches(vectors, i) ==
    IF i >= Len(vectors) THEN <<>>
    ELSE <<SubSeq(vectors, i + 1, Min(i + chunk_size, Len(vectors)))>>
         \o PcBatches(vectors, NextStart(i))

\* PineconeClient.upsert(vectors) when remote call failAt raises (none when
\* failAt is 0 or beyond the last call): [calls, error, sent], sent being the
\* batches the service has accepted.  The exception of the remote call
\* leaves upsert as it is; upsert returns None.
PineconeUpsert(vectors, failAt) ==
    LET batches == PcBatches(vectors, 0)
        fails == failAt \in 1..Len(batches)
        made == IF fails THEN SubSeq(batches, 1, failAt) ELSE batches
    IN [calls |-> [k \in 1..Len(made) |->
                      RemoteCall("upsert", VECTOR_INDEX_NAME, 0, "", made[k])],
        error |-> IF fails THEN "PineconeException" ELSE None,
        sent |-> IF fails THEN SubSeq(batches, 1, failAt - 1) ELSE batches]

\* The ids of the records of the batches.
IdsOf(batches) ==
    UNION {{batches[k][i][1] : i \in 1..Len(batches[k])} : k \in 1..Len(batches)}

\* The records of a request with n chunks, as run_query builds them.
PcRecords(n) == [i \in 1..n |-> <<Str(i - 1), V1, [text |-> "A"]>>]

\* The sizes of the upserts on the managed index: around every multiple of
\* chunk_size up to MaxRemoteCalls calls.
PcSizes ==
    {k * chunk_size + d : k \in 0..(MaxRemoteCalls - 1), d \in {0, 1, chunk_size - 1}}
        \cup {MaxRemoteCalls * chunk_size}

\* vector_client.upsert(vectors_to_upsert) on the managed index.
PcUpsert(n, failAt) ==
    /\ proc = "up"
    /\ vector_client.kind = "PineconeClient"
    /\ \E r \in {PineconeUpsert(PcRecords(n), failAt)} :
          /\ remote' = [remote EXCEPT !.written = @ \cup IdsOf(r.sent)]
          /\ trace' = Trace("upsert", PcRecords(n), r.calls, r.error, <<>>, None, FALSE)
          /\ lastOp' = Op("upsert", r.error, <<>>, FALSE, 0)
          /\ vector_client' = AfterCall(vector_client, r.error)
    /\ UNCHANGED <<proc, env, disk, crash, tasks, running>>
    /\ UNCHANGED libVars

\* What the service may answer to a query: no match, or one.
Responses ==
    {[matches |-> <<>>],
     [matches |-> <<[id |-> "0", score |-> Unit * Unit, metadata |-> [text |-> "A"]]>>]}

\* vector_client.query(query_emb, top_k) on the managed index: the remote
\* call returns response (ok) or raises; query returns response['matches'].
PcQuery(embedding, top_k, response, ok) ==
    /\ proc = "up"
    /\ vector_client.kind = "PineconeClient"
    /\ \E error \in {IF ok THEN None ELSE "PineconeException"} :
          /\ trace' = Trace("query", <<>>,
                            <<RemoteCall("query", VECTOR_INDEX_NAME, 0, "", <<embedding>>)>>,
                            error, <<>>, None, FALSE)
          /\ lastOp' = Op("query", error, IF ok THEN response.matches ELSE <<>>, FALSE, top_k)
          /\ vector_client' = AfterCall(vector_client, error)
    /\ UNCHANGED <<proc, env, remote, disk, crash, tasks, running>>
    /\ UNCHANGED libVars

\* The upserts on the local index here: vectors_to_upsert of a request with
\* one chunk, (str(0), emb, {"text": chunk}), with an embedding of the index
\* dimension or of another.
LocalBatches ==
    {<<<<Str(0), emb, [text |-> text]>>>> : emb \in {V1, VBad}, text \in {"A"}}

\* Process runs in every environment, with the calls of the requests on the
\* client of the run: one-record upserts and queries on the local index,
\* upserts and queries on the managed one.
NextBackend ==
    \/ \E e \in Envs, fault \in Faults : Boot(e, fault)
    \/ Stop
    \/ \E vectors \in LocalBatches : Upsert(vectors)
    \/ \E q \in QueryVecs : DoQuery(q, TOP_K_RESULTS)
    \/ \E n \in PcSizes, failAt \in 0..MaxRemoteCalls : PcUpsert(n, failAt)
    \/ \E q \in QueryVecs, response \in Responses, ok \in BOOLEAN :
          PcQuery(q, TOP_K_RESULTS, response, ok)

SpecBackend == Init /\ [][NextBackend]_vars

(* --------------------------- chunk_text, step by step ------------------ *)

\* chunk_text(text, size, overlap) up to its loop: text.split(), the test of
\* an empty word list, and the initial locals.
ChunkCall(text, size, overlap) ==
    /\ chunker.pc = "idle"
    /\ \E words \in {Split(text)} :
          chunker' = IF words = <<>>
                     THEN Chunker("done", words, size, overlap, 0, <<>>, <<>>, None)
                     ELSE Chunker("loop", words, size, overlap, 0, <<>>, <<>>, None)
    /\ UNCHANGED <<proc, vector_client, disk, lastOp, crash, tasks, running>>
    /\ UNCHANGED <<backendVars, embedder>>

\* One test of the while condition: either one pass of the body, or the
\* return of chunks. A loop is followed up to MaxChunks chunks.
ChunkStep ==
    /\ chunker.pc = "loop"
    /\ IF chunker.start < Len(chunker.words)
       THEN /\ Len(chunker.chunks) < MaxChunks
            /\ \E end \in {Min(chunker.start + chunker.size, Len(chunker.words))} :
                  chunker' = [chunker EXCEPT
                      !.chunks = Append(@, Join(PySlice(chunker.words, chunker.start, end))),
                      !.start = Advance(@, chunker.size, chunker.overlap)]
       ELSE chunker' = [chunker EXCEPT !.pc = "done", !.result = chunker.chunks]
    /\ UNCHANGED <<proc, vector_client, disk, lastOp, crash, tasks, running>>
    /\ UNCHANGED <<backendVars, embedder>>

\* The texts chunk_text is called with: every text of up to MaxText
\* characters, and the 500-word text with the configured size and overlap.
NextChunk ==
    \/ /\ chunker.pc = "idle"
       /\ \E text \in SeqsUpTo(ChunkChars, MaxText), size \in 1..MaxSize, overlap \in 0..MaxSize :
             ChunkCall(text, size, overlap)
    \/ /\ chunker.pc = "idle"
       /\ ChunkCall(ScenarioText, CHUNK_SIZE, CHUNK_OVERLAP)
    \/ ChunkStep

SpecChunk == Init /\ [][NextChunk]_vars

(* ------------------- get_embedding, get_embeddings_batch --------------- *)

\* The call has returned result to run_query (lines 55-67): with a
\* vector_client it builds vectors_to_upsert from the result and the chunks
\* and goes on to the upsert; with vector_client = None it raises
\* HTTPException(500) at line 67 and is in its except clause.
Returned(e, result) ==
    [e EXCEPT !.pc = "returned", !.result = result,
              !.caller = IF e.fn # "batch" THEN "none"
                         ELSE IF vector_client.kind # None THEN "upsert"
                         ELSE "except",
              !.vectors_to_upsert =
                  IF e.fn = "batch" /\ vector_client.kind # None
                  THEN [i \in 1..Len(result) |-> <<Str(i - 1), result[i], [text |-> e.texts[i]]>>]
                  ELSE <<>>]

\* The call has raised: run_query goes to its except clause.
Raised(e, error) ==
    [e EXCEPT !.pc = "raised", !.error = error,
              !.caller = IF e.fn = "batch" THEN "except" ELSE "none"]

\* The sequences without repetition of members of S.
Arrivals(S) ==
    {a \in SeqsUpTo(S, Cardinality(S)) : \A j, k \in 1..Len(a) : j # k => a[j] # a[k]}

\* What response.data of openai_client.embeddings.create(input=texts) can be:
\* items that each hold the embedding of one input and its index in the
\* input, in any order, for all inputs or for some.  The service normally
\* gives one item per input in input order; the code does not test it.
OpenAIResponses(texts) ==
    {[k \in 1..Len(order) |->
         [index |-> order[k] - 1, embedding |-> Embed(texts[order[k]])]] :
       order \in Arrivals(1..Len(texts))}

\* get_embeddings_batch(texts, provider) up to its first await: the OpenAI
\* branch makes its one call; the other branch builds one get_embedding
\* coroutine per text and awaits gather, which returns [] at once when there
\* is no text and otherwise makes a task of every coroutine and schedules
\* the first step of each, in input order.
EmbedBatchCall(texts, provider, keys) ==
    /\ embedder.pc = "idle"
    /\ embedder' =
          IF UsesOpenAIBatch(provider, keys)
          THEN [Embedder("openai_batch", "batch", provider, keys, texts) EXCEPT
                  !.backend_calls = 1]
          ELSE IF texts = <<>>
          THEN Returned(Embedder("gather", "batch", provider, keys, texts),
                        GatherResult(<<>>, <<>>))
          ELSE [Embedder("gather_start", "batch", provider, keys, texts) EXCEPT
                  !.scheduled = [i \in 1..Len(texts) |-> Handle("start", i)]]
    /\ UNCHANGED <<proc, vector_client, disk, lastOp, crash, tasks, running>>
    /\ UNCHANGED <<backendVars, chunker>>

\* The one call of the OpenAI branch ends: it raises, or it returns and
\* get_embeddings_batch returns [item.embedding for item in response.data].
OpenAIBatchDone(ok, data) ==
    /\ embedder.pc = "openai_batch"
    /\ embedder' =
          IF ok
          THEN Returned([embedder EXCEPT
                            !.response = data,
                            !.items = [i \in 1..Len(embedder.texts) |-> "done"]],
                        [k \in 1..Len(data) |-> data[k].embedding])
          ELSE Raised([embedder EXCEPT
                            !.items = [i \in 1..Len(embedder.texts) |-> "raised"]],
                      "BackendError")
    /\ UNCHANGED <<proc, vector_client, disk, lastOp, crash, tasks, running>>
    /\ UNCHANGED <<backendVars, chunker>>

\* Whether the call is one that gathers get_embedding tasks.
InGather(e) ==
    e.fn = "batch" /\ ~UsesOpenAIBatch(e.provider, e.keys) /\ e.texts # <<>>

\* The gathered calls that are in their backend call: the coroutine has made
\* its first step and has not ended.
PendingItems(e) ==
    IF InGather(e)
    THEN {i \in 1..e.started : e.items[i] = "pending"}
    ELSE {}

\* The event loop begins a turn, the callbacks of the last one all run: it
\* takes the callbacks scheduled meanwhile and, behind them, the steps of the
\* tasks whose backend has answered since, in the order the answers came in.
\* With nothing scheduled it waits until an answer comes.
LoopTurn(arrivals) ==
    /\ InGather(embedder)
    /\ embedder.pc \in {"gather_start", "gather", "raised"}
    /\ embedder.ready = <<>>
    /\ embedder.scheduled \o arrivals # <<>>
    /\ embedder' = [embedder EXCEPT
          !.ready = embedder.scheduled
                    \o [k \in 1..Len(arrivals) |-> Handle("step", arrivals[k])],
          !.scheduled = <<>>]
    /\ UNCHANGED <<proc, vector_client, disk, lastOp, crash, tasks, running>>
    /\ UNCHANGED <<backendVars, chunker>>

\* The first step of the task of get_embedding number i: the coroutine runs
\* up to its first await.  With a usable provider it enters its backend call
\* and waits for it; without one it raises ValueError before any call: the
\* task ends and schedules gather's _done_callback.  The first steps of the
\* n tasks follow each other in the ready queue.
ItemStart(i) ==
    /\ embedder.pc = "gather_start"
    /\ embedder.ready # <<>>
    /\ Head(embedder.ready) = Handle("start", i)
    /\ \E r \in {GetEmbedding(embedder.texts[i], embedder.provider, embedder.keys, TRUE)} :
       \E e \in {[embedder EXCEPT
                    !.started = i,
                    !.ready = Tail(@),
                    !.pc = IF i = Len(embedder.texts) THEN "gather" ELSE @]} :
          embedder' =
              IF Available(embedder.provider, embedder.keys)
              THEN [e EXCEPT !.backend_calls = @ + r.backend_calls]
              ELSE [e EXCEPT !.items[i] = "raised",
                             !.errors[i] = r.error,
                             !.done_order = Append(@, i),
                             !.scheduled = Append(@, Handle("done", i))]
    /\ UNCHANGED <<proc, vector_client, disk, lastOp, crash, tasks, running>>
    /\ UNCHANGED <<backendVars, chunker>>

\* The step of the task of get_embedding number i that its backend's answer
\* woke: the answer gives the embedding (ok) or the call raises, the
\* coroutine ends and the task schedules gather's _done_callback.  The call
\* was counted when the coroutine entered it.  run_query goes on waiting.
ItemDone(i, ok) ==
    /\ embedder.pc \in {"gather", "raised"}
    /\ embedder.ready # <<>>
    /\ Head(embedder.ready) = Handle("step", i)
    /\ \E r \in {GetEmbedding(embedder.texts[i], embedder.provider, embedder.keys, ok)} :
          embedder' = [embedder EXCEPT
              !.items[i] = IF r.error = None THEN "done" ELSE "raised",
              !.values[i] = r.value,
              !.errors[i] = r.error,
              !.done_order = Append(@, i),
              !.ready = Tail(@),
              !.scheduled = Append(@, Handle("done", i))]
    /\ UNCHANGED <<proc, vector_client, disk, lastOp, crash, tasks, running>>
    /\ UNCHANGED <<backendVars, chunker>>

\* gather's _done_callback for the task of item i: it counts the task; with
\* the outer future set already it does no more; else it sets the exception
\* of the task on the outer future, or, the last task counted, the list of
\* results.  Setting the outer future schedules the wakeup of run_query.
GatherDone(i) ==
    /\ embedder.pc \in {"gather", "raised"}
    /\ embedder.ready # <<>>
    /\ Head(embedder.ready) = Handle("done", i)
    /\ \E e \in {[embedder EXCEPT !.nfinished = @ + 1, !.ready = Tail(@)]} :
          embedder' =
              IF e.outer.state # "pending" THEN e
              ELSE IF GatherRaises(e.errors[i])
              THEN [e EXCEPT !.outer = Outer("exception", <<>>, e.errors[i]),
                             !.scheduled = Append(@, Handle("wakeup", 0))]
              ELSE IF e.nfinished = Len(e.texts)
              THEN [e EXCEPT !.outer = Outer("result", GatherResult(e.values, e.done_order), None),
                             !.scheduled = Append(@, Handle("wakeup", 0))]
              ELSE e
    /\ UNCHANGED <<proc, vector_client, disk, lastOp, crash, tasks, running>>
    /\ UNCHANGED <<backendVars, chunker>>

\* The task of run_query is resumed: the await of gather gives its result or
\* raises its exception in get_embeddings_batch (line 71), which returns or
\* raises to run_query, which goes on from line 58 or to its except clause.
GatherResume ==
    /\ embedder.pc = "gather"
    /\ embedder.ready # <<>>
    /\ Head(embedder.ready) = Handle("wakeup", 0)
    /\ \E e \in {[embedder EXCEPT !.ready = Tail(@)]} :
          embedder' = IF e.outer.state = "exception"
                      THEN Raised(e, e.outer.error)
                      ELSE Returned(e, e.outer.result)
    /\ UNCHANGED <<proc, vector_client, disk, lastOp, crash, tasks, running>>
    /\ UNCHANGED <<backendVars, chunker>>

\* get_embedding(text, provider) called on its own, up to its await: the
\* backend call of the provider, or ValueError.
EmbedOneCall(text, provider, keys) ==
    /\ embedder.pc = "idle"
    /\ embedder' =
          IF Available(provider, keys)
          THEN [Embedder("one", "one", provider, keys, <<text>>) EXCEPT !.backend_calls = 1]
          ELSE Raised([Embedder("one", "one", provider, keys, <<text>>) EXCEPT
                          !.items[1] = "raised"],
                      GetEmbedding(text, provider, keys, TRUE).error)
    /\ UNCHANGED <<proc, vector_client, disk, lastOp, crash, tasks, running>>
    /\ UNCHANGED <<backendVars, chunker>>

\* The backend call of a single get_embedding ends.
EmbedOneDone(ok) ==
    /\ embedder.pc = "one"
    /\ \E r \in {GetEmbedding(embedder.texts[1], embedder.provider, embedder.keys, ok)} :
          embedder' = IF r.error = None
                      THEN Returned([embedder EXCEPT !.items[1] = "done"], <<r.value>>)
                      ELSE Raised([embedder EXCEPT !.items[1] = "raised"], r.error)
    /\ UNCHANGED <<proc, vector_client, disk, lastOp, crash, tasks, running>>
    /\ UNCHANGED <<backendVars, chunker>>

NextEmbed ==
    \/ /\ embedder.pc = "idle"
       /\ \E texts \in SeqsUpTo(Texts, MaxTexts), provider \in Providers, keys \in KeySets :
             EmbedBatchCall(texts, provider, keys)
    \/ /\ embedder.pc = "idle"
       /\ \E text \in Texts, provider \in Providers, keys \in KeySets :
             EmbedOneCall(text, provider, keys)
    \/ /\ embedder.pc = "openai_batch"
       /\ \E ok \in BOOLEAN, data \in OpenAIResponses(embedder.texts) :
             OpenAIBatchDone(ok, data)
    \/ /\ embedder.ready = <<>>
       /\ \E arrivals \in Arrivals(PendingItems(embedder)) : LoopTurn(arrivals)
    \/ \E i \in 1..MaxTexts : ItemStart(i)
    \/ \E i \in 1..MaxTexts, ok \in BOOLEAN : ItemDone(i, ok)
    \/ \E i \in 1..MaxTexts : GatherDone(i)
    \/ GatherResume
    \/ \E ok \in BOOLEAN : EmbedOneDone(ok)

\* The process is up, with the vector_client built on an empty directory or,
\* faiss not being importable, with vector_client = None, and no call of the
\* embedding module made yet.
InitEmbed ==
    \E faiss \in BOOLEAN : InitRun([LocalEnv EXCEPT !.FAISS_AVAILABLE = faiss])

SpecEmbed == InitEmbed /\ [][NextEmbed]_vars

(* --------------------- run_query with its download --------------------- *)

\* How the server of the document URL behaves: it answers, fails or goes
\* silent, so that requests.get and iter_content return or raise within the
\* 30 seconds allowed between two reads ("ends"), or it keeps sending the
\* next bytes before each read times out ("trickles").
Servers == {"ends", "trickles"}

\* The request arrives: the extension test on the URL, then the call of
\* extract_text, up to requests.get(url, stream=True, timeout=30) of
\* _download_file.  The call is synchronous: the task keeps the event loop
\* while it downloads.
Arrive(t, url, questions, server) ==
    /\ proc = "up"
    /\ tasks[t].pc = "idle"
    /\ \A u \in Tasks : u < t => tasks[u].pc # "idle"
    /\ AcceptedUpTo(NumTasks).chunks + Len(ChunksOf(DocAt(url))) <= MaxVectors
    /\ AcceptedUpTo(NumTasks).questions + Len(questions) <= MaxQuestions
    /\ MayRun(t)
    /\ \E r \in {[tasks[t] EXCEPT !.url = url, !.questions = questions]} :
          Goto(t, IF DocType(url) = None THEN Reject(r)
                  ELSE [Called(r, "extract") EXCEPT
                           !.pc = IF server = "ends" THEN "download"
                                  ELSE "download_read"])
    /\ UNCHANGED <<proc, vector_client, disk, lastOp, crash>>
    /\ UNCHANGED <<backendVars, libVars>>

\* The download ends: the file is complete (ok) or requests raised, a
\* connect or read timeout included; then the rest of extract_text, the test
\* for text, chunking, up to the await of get_embeddings_batch.
Downloaded(t, ok) ==
    /\ tasks[t].pc = "download"
    /\ MayRun(t)
    /\ Goto(t, AfterExtraction(tasks[t], DocAt(tasks[t].url), ok))
    /\ UNCHANGED <<proc, vector_client, disk, lastOp, crash>>
    /\ UNCHANGED <<backendVars, libVars>>

\* One pass of `for chunk in response.iter_content(...)` with a server that
\* trickles: the next bytes arrive within the read timeout ...
ReceiveChunk(t) ==
    /\ tasks[t].pc = "download_read"
    /\ MayRun(t)
    /\ Goto(t, [tasks[t] EXCEPT !.pc = "download_write"])
    /\ UNCHANGED <<proc, vector_client, disk, lastOp, crash>>
    /\ UNCHANGED <<backendVars, libVars>>

\* ... and tmp.write(chunk) puts them into the temporary file.
WriteChunk(t) ==
    /\ tasks[t].pc = "download_write"
    /\ MayRun(t)
    /\ Goto(t, [tasks[t] EXCEPT !.pc = "download_read"])
    /\ UNCHANGED <<proc, vector_client, disk, lastOp, crash>>
    /\ UNCHANGED <<backendVars, libVars>>

\* The steps of task t after its arrival.
TaskStep(t) ==
    \/ \E ok \in BOOLEAN : Downloaded(t, ok)
    \/ ReceiveChunk(t)
    \/ WriteChunk(t)
    \/ \E ok \in BOOLEAN : EmbedDone(t, ok)
    \/ UpsertStep(t)
    \/ \E ok \in BOOLEAN : QEmbedDone(t, ok)
    \/ \E ok \in BOOLEAN : AnswerDone(t, ok)
    \/ \E failing \in FailingSets : ExplainDone(t, failing)

NextLive ==
    \E t \in Tasks :
        \/ \E url \in Urls, questions \in QuestionLists, server \in Servers :
              Arrive(t, url, questions, server)
        \/ TaskStep(t)

\* The event loop runs a task that can go on, and an awaited call that can
\* end does end: each task takes its next step when that step stays possible.
SpecLive == InitReq /\ [][NextLive]_vars /\ \A t \in Tasks : WF_vars(TaskStep(t))

(* ------------------------------- claims ------------------------------- *)

IsFaiss == vector_client.kind = "FAISSClient"

\* The ids the position -> id mapping gives the stored vectors.
StoredIds(c) ==
    {DictGet(c.id_mapping, Str(p), Str(p)) : p \in 0..(Ntotal(c.index) - 1)}

\* C1: an upsert call with a record whose embedding length differs from the
\* index dimension fails and leaves the vector store, both mappings and the
\* persisted artifacts as they were before the call.
C1_MismatchWritesNothing ==
    [][(lastOp'.op = "upsert" /\ lastOp'.mismatch)
         => (/\ lastOp'.error # None
             /\ vector_client' = vector_client
             /\ disk' = disk)]_vars

\* C2: every id is held by at most one stored record, so the number of
\* stored vectors is the number of distinct ids and no query returns two
\* matches with the same id.
C2_OverwriteById ==
    IsFaiss =>
        /\ Ntotal(vector_client.index) = Cardinality(StoredIds(vector_client))
        /\ \A q \in QueryVecs, k \in 1..MaxTopK :
              LET m == Query(vector_client, q, k)
              IN \A i, j \in 1..Len(m) : i # j => m[i].id # m[j].id

\* C3: a query returns min(top_k, number of stored vectors) matches: never
\* more than top_k, all of them when there are fewer, none for an empty index.
C3_QueryCount ==
    IsFaiss =>
        /\ \A q \in QueryVecs, k \in 1..MaxTopK :
              Len(Query(vector_client, q, k)) = Min(k, Ntotal(vector_client.index))
        /\ lastOp.op = "query" =>
              /\ lastOp.error = None
              /\ Len(lastOp.out) = Min(lastOp.top_k, Ntotal(vector_client.index))

\* C3 witness: a query has asked for more matches than the index holds
\* vectors and got one match per vector.
C3_Witness ==
    /\ IsFaiss
    /\ lastOp.op = "query"
    /\ Ntotal(vector_client.index) >= 1
    /\ lastOp.top_k > Ntotal(vector_client.index)
    /\ Len(lastOp.out) = Ntotal(vector_client.index)

\* C4: the matches of a query are in descending score order, and matches of
\* equal score are in the order their vectors were inserted (by position).
C4_StableOrder ==
    IsFaiss =>
        \A q \in QueryVecs, k \in 1..MaxTopK :
            LET m == Query(vector_client, q, k)
                hits == QueryHits(vector_client, q, k)
            IN \A i, j \in 1..Len(m) :
                  i < j => \/ m[i].score > m[j].score
                           \/ (m[i].score = m[j].score /\ hits[i].idx < hits[j].idx)

\* C5: after a successful upsert a fresh instance built from the persisted
\* artifacts holds the same three pieces of state as the instance that wrote
\* them and answers every query with the same matches.
C5_RoundTrip ==
    (IsFaiss /\ lastOp.op = "upsert" /\ lastOp.error = None) =>
        LET fresh == Construct(disk, Dim)
        IN /\ fresh.error = None
           /\ fresh.client = vector_client
           /\ \A q \in QueryVecs, k \in 1..MaxTopK :
                 Query(fresh.client, q, k) = Query(vector_client, q, k)

\* C5 witness: a successful upsert onto an index that already held vectors,
\* one of whose ids it reused.
C5_Witness ==
    /\ IsFaiss
    /\ lastOp.op = "upsert"
    /\ lastOp.error = None
    /\ Ntotal(vector_client.index) >= 2
    /\ Cardinality(StoredIds(vector_client)) < Ntotal(vector_client.index)

\* Whether an instance's three pieces of state fit together.
Consistent(c) ==
    /\ Ntotal(c.index) = Cardinality(DOMAIN c.id_mapping)
    /\ \A k \in DOMAIN c.id_mapping : c.id_mapping[k] \in DOMAIN c.metadata

\* C6: the construction that follows a crash inside an upsert yields the
\* complete state from before that upsert or the complete state after it,
\* and never one whose three pieces do not fit together.
C6_CrashAtomic ==
    (lastOp.op = "construct" /\ crash.happened) =>
        /\ lastOp.error = None
        /\ \/ vector_client = Construct(crash.pre, Dim).client
           \/ vector_client = Construct(crash.post, Dim).client
        /\ Consistent(vector_client)

AllThereIntact(dk) ==
    /\ dk.index_file.state = "Ok"
    /\ dk.metadata_file.state = "Ok"
    /\ dk.id_mapping_file.state = "Ok"

\* C7: constructing from artifacts whose vector count differs from the size
\* of the position -> id mapping fails.
C7_FailFast ==
    (/\ lastOp.op = "construct"
     /\ AllThereIntact(disk)
     /\ Ntotal(disk.index_file.data) # Cardinality(DOMAIN disk.id_mapping_file.data))
        => lastOp.error # None

Present(dk) == {f \in Artifacts : dk[f].state # NoFile}

\* C8: constructing when some but not all of the three artifacts exist fails.
C8_PartialArtifactsFail ==
    (lastOp.op = "construct" /\ Present(disk) # {} /\ Present(disk) # Artifacts)
        => lastOp.error # None

InUpsert(t) == tasks[t].pc \in UpsertPcs

\* Task t's upsert has returned.
UpsertDone(t) ==
    /\ tasks[t].pc \notin UpsertPcs \cup {"idle", "await_embed"}
    /\ tasks[t].pc = "failed" => tasks[t].qi >= 1

RECURSIVE UpsertedUpTo(_)
\* The number of records of the upserts that have returned, tasks 1..n.
UpsertedUpTo(n) ==
    IF n = 0 THEN 0
    ELSE UpsertedUpTo(n - 1) + (IF UpsertDone(n) THEN Len(tasks[n].chunks) ELSE 0)

\* C9: under cooperative scheduling the upserts of concurrently processed
\* requests never interleave: at most one task is between the read of the
\* vector count and the last artifact write; the count it read is still the
\* count when it assigns positions and adds its rows; and whenever no upsert
\* is running the index holds exactly the records of the upserts that have
\* returned, each position mapped once, and the artifacts hold that state
\* (or nothing, before the first upsert).
C9_UpsertsNeverInterleave ==
    /\ \A t, u \in Tasks : InUpsert(t) /\ InUpsert(u) => t = u
    /\ \A t \in Tasks :
          tasks[t].pc \in {"upsert_loop", "upsert_add"}
              => tasks[t].start_idx = Ntotal(vector_client.index)
    /\ (\A t \in Tasks : ~InUpsert(t)) =>
          /\ Ntotal(vector_client.index) = UpsertedUpTo(NumTasks)
          /\ DOMAIN vector_client.id_mapping =
                 {Str(p) : p \in 0..(Ntotal(vector_client.index) - 1)}
          /\ \/ disk = NoDisk /\ Ntotal(vector_client.index) = 0
             \/ disk = Persist(NoDisk, vector_client)

\* C9 witness: the request that arrived second has upserted and waits for a
\* generation call while the first, still in flight, is in the middle of the
\* artifact writes of its own upsert on top of the other's records.
C9_Witness ==
    /\ tasks[2].pc = "await_answer"
    /\ tasks[1].pc = "write_metadata"
    /\ tasks[1].start_idx = Len(tasks[2].chunks)
    /\ Len(tasks[1].chunks) = 2

\* C10: a completed request has one answer per input question, and the i-th
\* answer is the one built for the i-th question.
C10_AnswersInQuestionOrder ==
    \A t \in Tasks :
        tasks[t].pc = "completed" =>
            /\ Len(tasks[t].results) = Len(tasks[t].questions)
            /\ \A i \in 1..Len(tasks[t].questions) :
                  tasks[t].results[i].answer.question = tasks[t].questions[i]

\* C10 witness: a request with two different questions has completed while
\* another request, which arrived before it, is still between its calls.
C10_Witness ==
    /\ tasks[2].pc = "completed"
    /\ tasks[2].questions = <<"q2", "q1">>
    /\ Len(tasks[2].results) = 2
    /\ tasks[1].pc = "await_embed"

\* The errors of the write path: extraction, the tests for text and chunks,
\* the embedding of the chunks, the index.
WritePathErrors ==
    {"ExtractionError", "NoContent", "NoChunks", "EmbeddingError", "IndexUnavailable",
     "IndexingError"}

\* The errors of the answering stage of one question.
ReadPathErrors == {"QuestionEmbeddingError", "QueryError", "GenerationError"}

\* C11: a request that fails in the write path ends Failed with one error
\* for the whole request: no answer is returned and no question-embedding,
\* index-query or generation call has been made for it.
C11_WritePathFailureAborts ==
    \A t \in Tasks :
        tasks[t].error \in WritePathErrors =>
            /\ tasks[t].pc = "failed"
            /\ tasks[t].status >= 400
            /\ tasks[t].results = <<>>
            /\ tasks[t].calls.qembed = 0
            /\ tasks[t].calls.query = 0
            /\ tasks[t].calls.generate = 0
            /\ tasks[t].calls.explain = 0

\* C11 witness: a request with questions has failed at the indexing of its
\* chunks, the upsert raising on the vectors of a provider of another length
\* than the index, after another request had failed at the embedding of its
\* chunks.
C11_Witness ==
    \E t, u \in Tasks :
        /\ tasks[t].error = "IndexingError"
        /\ tasks[t].questions # <<>>
        /\ tasks[t].calls.upsert = 1
        /\ vector_client.kind = "FAISSClient"
        /\ tasks[u].error = "EmbeddingError"
        /\ tasks[u].calls.embed_batch = 1

\* C12: an error in the answering stage of one question (its embedding, the
\* index query, the generation of its answer) does not fail the request: the
\* request still returns the answers of its other questions.
C12_ReadErrorsIsolated ==
    \A t \in Tasks :
        tasks[t].error \in ReadPathErrors =>
            /\ tasks[t].pc # "failed"
            /\ tasks[t].status # 500

\* C13: when the generation call for the explanation of a match raises, that
\* clause gets the fallback explanation stating the score, the other matches
\* are explained, and the request goes on: the step that ends
\* create_clause_explanations never fails the request and adds one answer
\* whose clauses are one per match, in match order.
C13_ExplanationFallback ==
    [][\A t \in Tasks :
          (tasks[t].pc = "await_explain" /\ tasks'[t] # tasks[t]) =>
              /\ tasks'[t].pc # "failed"
              /\ Len(tasks'[t].results) = Len(tasks[t].results) + 1
              /\ Len(tasks'[t].log) = Len(tasks'[t].results)
              /\ LET clauses == tasks'[t].results[Len(tasks'[t].results)].clauses
                     matches == tasks[t].matches
                     failing == tasks'[t].log[Len(tasks'[t].log)].failing
                 IN /\ Len(clauses) = Len(matches)
                    /\ \A j \in 1..Len(matches) :
                          /\ clauses[j].text = matches[j].metadata.text
                          /\ clauses[j].explanation.score = Fmt3(matches[j].score)
                          /\ clauses[j].explanation.fallback = (j \in failing)
                          /\ j \notin failing =>
                                clauses[j].explanation.question
                                    = tasks[t].questions[tasks[t].qi]]_vars

\* C13 witness: a completed request whose first answer has two clauses, the
\* first with the fallback explanation, the second explained.
C13_Witness ==
    \E t \in Tasks :
        /\ tasks[t].pc = "completed"
        /\ Len(tasks[t].results) >= 1
        /\ tasks[t].log[1].failing = {1}
        /\ Len(tasks[t].results[1].clauses) = 2
        /\ tasks[t].results[1].clauses[1].explanation.fallback
        /\ ~tasks[t].results[1].clauses[2].explanation.fallback

\* C14: a request whose extracted text is empty or white space only ends
\* Failed with a client-input status, another status than the one of the
\* server-side failures, and without a chunking, embedding or index call.
C14_NoContentIsClientError ==
    \A t \in Tasks :
        tasks[t].error = "NoContent" =>
            /\ tasks[t].pc = "failed"
            /\ tasks[t].status \in 400..499
            /\ \A u \in Tasks :
                  tasks[u].error \in {"EmbeddingError", "IndexUnavailable"}
                      => tasks[u].status # tasks[t].status
            /\ tasks[t].calls.chunk = 0
            /\ tasks[t].calls.embed_batch = 0
            /\ tasks[t].calls.upsert = 0

\* The URLs whose path, lower-cased and without the query string, ends in
\* .pdf or .docx.
SupportedUrls == {UrlPdf, UrlDocxQuery, UrlPdfFragment, UrlPdfParam}

\* C15: a request whose URL path ends in neither .pdf nor .docx is turned
\* away with a client-input error and without any extraction, embedding,
\* index or generation call; a URL whose path ends in .pdf or .docx, in any
\* letter case and with or without a query string, passes the test.
C15_ExtensionCheck ==
    \A t \in Tasks :
        tasks[t].pc # "idle" =>
            /\ (DocType(tasks[t].url) = None) = (tasks[t].url \notin SupportedUrls)
            /\ tasks[t].url \notin SupportedUrls =>
                  /\ tasks[t].pc = "failed"
                  /\ tasks[t].status = 400
                  /\ tasks[t].error = "UnsupportedUrl"
                  /\ tasks[t].calls = NoCalls
            /\ tasks[t].url \in SupportedUrls =>
                  /\ tasks[t].error # "UnsupportedUrl"
                  /\ tasks[t].calls.extract = 1

\* C15 witness: a .txt URL whose query string ends in .pdf has been turned
\* away, and an upper-case .DOCX URL with a query string has been answered.
C15_Witness ==
    /\ tasks[1].url = UrlTxtQueryPdf
    /\ tasks[1].status = 400
    /\ tasks[2].url = UrlDocxQuery
    /\ tasks[2].pc = "completed"
    /\ Len(tasks[2].results) = 1

\* C16: the factory returns the managed index exactly when its credentials
\* are configured, its client library is there and its initialisation
\* succeeds (no remote call it needs raises); otherwise it returns the local
\* index, and it raises only when the local index cannot be built either.
C16_BackendSelection ==
    (proc = "up" /\ lastOp.op = "construct" /\ trace.op = "construct") =>
        LET initOK == trace.fault = None \/ (trace.fault = "create_index" /\ trace.existed)
            managed == env.api_key # None /\ env.PINECONE_AVAILABLE /\ initOK
            localOK == env.FAISS_AVAILABLE /\ Construct(disk, Dim).error = None
        IN /\ (vector_client.kind = "PineconeClient") = managed
           /\ (vector_client.kind = "FAISSClient") = (~managed /\ localOK)
           /\ (lastOp.error # None) = (~managed /\ ~localOK)
           /\ (vector_client.kind = None) = (lastOp.error # None)

\* C16 witness: credentials and library are there, list_indexes has raised,
\* and the process runs on the local index.
C16_Witness ==
    /\ proc = "up"
    /\ lastOp.op = "construct"
    /\ env.api_key # None
    /\ env.PINECONE_AVAILABLE
    /\ trace.fault = "list_indexes"
    /\ vector_client.kind = "FAISSClient"

\* C17: within one process run every call goes to the client chosen at
\* start: no step of a running process changes the kind of vector_client,
\* nor the managed client itself, also when a call on it has raised.
C17_BackendFixedForRun ==
    [][(proc = "up" /\ proc' = "up") =>
          /\ vector_client'.kind = vector_client.kind
          /\ vector_client.kind = "PineconeClient" => vector_client' = vector_client]_vars

\* C17 witness: an upsert on the managed index has raised after its first
\* remote call and the process is still on the managed index.
C17_Witness ==
    /\ proc = "up"
    /\ trace.op = "upsert"
    /\ trace.error # None
    /\ Len(trace.calls) = 2
    /\ vector_client.kind = "PineconeClient"

\* C18: building the managed client lists the indexes first; when the name
\* is absent it makes exactly one create call, with the configured dimension
\* (the one the factory is given) and the cosine metric; when the name is
\* there it makes no create call.
C18_CreateWithConfiguredDimension ==
    (trace.op = "construct" /\ trace.calls # <<>>) =>
        LET creates == {k \in 1..Len(trace.calls) : trace.calls[k].call = "create_index"}
        IN /\ trace.calls[1].call = "list_indexes"
           /\ trace.existed => creates = {}
           /\ (~trace.existed /\ trace.fault # "list_indexes") =>
                 /\ Cardinality(creates) = 1
                 /\ \A k \in creates :
                       /\ trace.calls[k].name = VECTOR_INDEX_NAME
                       /\ trace.calls[k].dimension = Dim
                       /\ trace.calls[k].metric = "cosine"

RECURSIVE Concat(_)
\* The batches of the calls, one after the other.
Concat(calls) == IF calls = <<>> THEN <<>> ELSE Head(calls).vectors \o Concat(Tail(calls))

\* C19: a managed-index upsert of n records whose remote calls all succeed
\* has made ceil(n/100) calls of at most 100 records each, and the batches in
\* call order are the input sequence.
C19_BatchesCoverInput ==
    (trace.op = "upsert" /\ trace.error = None) =>
        /\ \A k \in 1..Len(trace.calls) :
              /\ trace.calls[k].call = "upsert"
              /\ Len(trace.calls[k].vectors) \in 1..100
        /\ Concat(trace.calls) = trace.input
        /\ Len(trace.calls) = (Len(trace.input) + 99) \div 100

\* C19 witness: 201 records have gone out in three calls.
C19_Witness ==
    /\ trace.op = "upsert"
    /\ trace.error = None
    /\ Len(trace.input) = 2 * chunk_size + 1
    /\ Len(trace.calls) = 3
    /\ Len(trace.calls[3].vectors) = 1

\* C20: when a remote call of a managed-index upsert raises, the upsert tells
\* its caller which records failed: those of the call that raised and of the
\* calls not made.
C20_FailedRecordsReported ==
    (trace.op = "upsert" /\ trace.error # None) =>
        trace.failed_records
            = SubSeq(trace.input, (Len(trace.calls) - 1) * chunk_size + 1, Len(trace.input))

(* C21: for size > overlap >= 0 and a text of n >= 1 tokens, the chunks
   chunk_text returns are the windows of the token sequence: chunk i (from 0)
   is the tokens at positions [i*(size-overlap), min(i*(size-overlap)+size, n))
   joined by blanks; there are ceil(n/(size-overlap)) of them, so the last,
   shorter window is kept; every token position lies in a chunk; the tokens of
   each chunk, read back by position, are those of the text (the chunks
   de-duplicated by position give the text back); no chunk has more than size
   tokens; 500 tokens with size 300 and overlap 50 give two chunks of 300 and
   250 tokens. *)
C21_ChunksAreWindows ==
    (chunker.pc = "done" /\ chunker.size > chunker.overlap /\ chunker.words # <<>>) =>
        LET words == chunker.words
            n == Len(words)
            size == chunker.size
            step == chunker.size - chunker.overlap
            chunks == chunker.result
            last == Len(chunks) - 1
        IN  /\ chunker.error = None
            /\ Len(chunks) = (n + step - 1) \div step
            /\ \A i \in 0..last :
                  /\ chunks[i + 1] = Join(SubSeq(words, i * step + 1, Min(i * step + size, n)))
                  /\ LET tokens == Split(chunks[i + 1])
                     IN  /\ Len(tokens) >= 1
                         /\ Len(tokens) <= size
                         /\ \A j \in 1..Len(tokens) : tokens[j] = words[i * step + j]
            /\ \A p \in 1..n :
                  \E i \in 0..last : i * step < p /\ p <= Min(i * step + size, n)
            /\ (n = 500 /\ size = 300 /\ chunker.overlap = 50) =>
                  /\ Len(chunks) = 2
                  /\ Len(Split(chunks[1])) = 300
                  /\ Len(Split(chunks[2])) = 250

\* C21 witness: the 500-word text chunked with size 300 and overlap 50 has
\* returned its two chunks, the second one shorter than size.
C21_Witness ==
    /\ chunker.pc = "done"
    /\ Len(chunker.words) = 500
    /\ chunker.size = 300
    /\ chunker.overlap = 50
    /\ Len(chunker.result) = 2
    /\ Len(Split(chunker.result[2])) < chunker.size

(* C22: chunk_text called with overlap >= size on a text with at least one
   token stops with a configuration error: it makes no pass of its loop and
   returns no chunks. *)
C22_OverlapNotBelowSizeRejected ==
    (chunker.pc # "idle" /\ chunker.overlap >= chunker.size /\ chunker.words # <<>>) =>
        /\ chunker.chunks = <<>>
        /\ chunker.pc = "done" => chunker.error = "ConfigurationError"

(* C23, as stated: get_embeddings_batch keeps the input order for every
   provider: what it returns has as many vectors as there were texts, and
   its i-th vector is the embedding of the i-th text, in whatever order the
   per-text calls ended. *)
C23_BatchKeepsInputOrder ==
    (embedder.fn = "batch" /\ embedder.pc = "returned") =>
        /\ Len(embedder.result) = Len(embedder.texts)
        /\ \A i \in 1..Len(embedder.texts) : embedder.result[i] = Embed(embedder.texts[i])

\* Whether response.data has one item per text, the item of the i-th text in
\* place i.
ResponseInInputOrder(e) ==
    /\ Len(e.response) = Len(e.texts)
    /\ \A k \in 1..Len(e.response) : e.response[k].index = k - 1

(* C23, amended: with the per-text calls (every provider but a configured
   openai) get_embeddings_batch returns one vector per text, the i-th the
   embedding of the i-th text, in whatever order the calls ended.  With the
   one batch call of openai it returns the embeddings of response.data in
   the order and number the service gave them: one per text in input order
   when, and only as far as, the service answers so. *)
C23_OrderKeptByGatherOrResponse ==
    (embedder.fn = "batch" /\ embedder.pc = "returned") =>
        IF UsesOpenAIBatch(embedder.provider, embedder.keys)
        THEN /\ Len(embedder.result) = Len(embedder.response)
             /\ \A k \in 1..Len(embedder.response) :
                   embedder.result[k] = embedder.response[k].embedding
             /\ ResponseInInputOrder(embedder) =>
                   \A i \in 1..Len(embedder.texts) :
                       embedder.result[i] = Embed(embedder.texts[i])
        ELSE /\ Len(embedder.result) = Len(embedder.texts)
             /\ \A i \in 1..Len(embedder.texts) :
                   embedder.result[i] = Embed(embedder.texts[i])

\* C23 witness: a batch of two different texts has returned after the call
\* for the second text ended before the call for the first.
C23_Witness ==
    /\ embedder.fn = "batch"
    /\ embedder.pc = "returned"
    /\ embedder.provider = "gemini"
    /\ embedder.texts = <<"A", "B">>
    /\ embedder.done_order = <<2, 1>>
    /\ embedder.result = <<Embed("A"), Embed("B")>>

(* C24: when the embedding of one text of a batch fails, the whole call of
   get_embeddings_batch fails.  From the moment an item has failed the call
   never returns: it gives no vectors, and run_query builds no record to
   upsert and does not go on to the upsert; once the event loop has run the
   callbacks the failure scheduled, the call has raised and run_query is in
   its except clause.  A call that returns holds no placeholder, and with
   the per-text calls it gives one vector per text; run_query goes on to the
   upsert only after a call that returned. *)
C24_ItemFailureFailsBatch ==
    embedder.fn = "batch" =>
        /\ (\E i \in 1..Len(embedder.texts) : embedder.items[i] = "raised") =>
              /\ embedder.pc # "returned"
              /\ embedder.result = <<>>
              /\ embedder.caller # "upsert"
              /\ embedder.vectors_to_upsert = <<>>
              /\ (embedder.ready = <<>> /\ embedder.scheduled = <<>>) =>
                    /\ embedder.pc = "raised"
                    /\ embedder.error # None
                    /\ embedder.caller = "except"
        /\ embedder.pc = "returned" =>
              /\ \A i \in 1..Len(embedder.result) : embedder.result[i] # <<>>
              /\ InGather(embedder) => Len(embedder.result) = Len(embedder.texts)
        /\ embedder.caller = "upsert" => embedder.pc = "returned"

\* C24 witness: with a vector_client in place, in a batch of two texts the
\* backend call for the second text has failed after the call for the first
\* had given its vector, and run_query is in its except clause.
C24_Witness ==
    /\ vector_client.kind = "FAISSClient"
    /\ embedder.fn = "batch"
    /\ Len(embedder.texts) = 2
    /\ embedder.items = <<"done", "raised">>
    /\ embedder.values[1] = Embed(embedder.texts[1])
    /\ embedder.done_order = <<1, 2>>
    /\ embedder.error = "BackendError"
    /\ embedder.caller = "except"

(* C25: with a provider that is unknown or has no API key, a call of
   get_embedding or get_embeddings_batch that has ended has raised the
   configuration error (ValueError), for every input, the empty list of texts
   included, has made no backend call and has given run_query nothing to
   upsert. *)
C25_UnconfiguredProviderRaises ==
    (embedder.pc \in {"returned", "raised"}
        /\ ~Available(embedder.provider, embedder.keys)) =>
        /\ embedder.pc = "raised"
        /\ embedder.error = "ValueError"
        /\ embedder.backend_calls = 0
        /\ embedder.caller # "upsert"

(* C26: every request that has arrived eventually ends Completed or Failed,
   whatever the external calls do: a call that would not return is cut by a
   timeout, and the timeout fails the stage. *)
C26_EveryRequestEnds ==
    \A t \in Tasks :
        (tasks[t].pc # "idle") ~> (tasks[t].pc \in {"completed", "failed"})

(* C27: after any sequence of upsert calls, returning or raising, and query
   calls on the local index, the number of stored vectors is the number of
   entries of the position -> id mapping, the keys of the mapping are the
   positions 0..count-1, and every id in the mapping has a metadata entry. *)
C27_StoreAndMappingsAgree ==
    IsFaiss =>
        LET c == vector_client
            count == Ntotal(c.index)
        IN  /\ count = Cardinality(DOMAIN c.id_mapping)
            /\ DOMAIN c.id_mapping = {Str(p) : p \in 0..(count - 1)}
            /\ \A k \in DOMAIN c.id_mapping : c.id_mapping[k] \in DOMAIN c.metadata

\* The match query builds for the vector stored at position p.
MatchAt(c, p) == Match(c, [idx |-> p, score |-> 0])

(* C28: a match carries the metadata that was upserted in the same record as
   the stored vector it stands for, whatever is upserted later: no upsert
   call that returns, also one that reuses ids of earlier records, changes
   the id or the metadata of the match of a vector stored before the call. *)
C28_MatchKeepsItsMetadata ==
    [][(IsFaiss /\ lastOp'.op = "upsert" /\ lastOp'.error = None
            /\ vector_client'.kind = "FAISSClient")
         => \A p \in 0..(Ntotal(vector_client.index) - 1) :
               MatchAt(vector_client', p) = MatchAt(vector_client, p)]_vars

\* The chunk texts of the document of request t.
OwnChunks(t) == {tasks[t].chunks[i] : i \in 1..Len(tasks[t].chunks)}

(* C29: every clause text in the answers of a request, and every chunk handed
   to the generation of one of its answers, is a chunk of the document of
   that request, for requests served one after the other and for requests
   whose tasks interleave at the awaits. *)
C29_OwnDocumentOnly ==
    \A t \in Tasks :
        /\ \A k \in 1..Len(tasks[t].results) :
              /\ \A j \in 1..Len(tasks[t].results[k].clauses) :
                    tasks[t].results[k].clauses[j].text \in OwnChunks(t)
              /\ \A j \in 1..Len(tasks[t].results[k].answer.context) :
                    tasks[t].results[k].answer.context[j] \in OwnChunks(t)
        /\ tasks[t].pc \in {"await_answer", "await_explain"} =>
              \A j \in 1..Len(Top3(RelevantChunks(tasks[t].matches))) :
                  Top3(RelevantChunks(tasks[t].matches))[j] \in OwnChunks(t)

(* C30: a local index instance that loaded persisted state has a vector
   store of the dimension the instance was constructed with: a persisted
   index of another dimension is not loaded under the configured one. *)
C30_LoadedDimensionIsConfigured ==
    IsFaiss => vector_client.index.d = vector_client.dimension

\* The position after the last token of chunk i (from 0) of the result: the
\* chunk starts at i * (size - overlap) and holds the tokens its text splits
\* into.
ChunkEnd(i) ==
    i * (chunker.size - chunker.overlap) + Len(Split(chunker.result[i + 1]))

(* C31: for size > overlap >= 0 no chunk chunk_text returns is wholly
   redundant: every chunk after the first holds a token position that the
   chunk before it does not hold, and a text of at most size tokens gives
   exactly one chunk. *)
C31_NoRedundantChunk ==
    (chunker.pc = "done" /\ chunker.size > chunker.overlap /\ chunker.words # <<>>) =>
        /\ \A i \in 1..(Len(chunker.result) - 1) : ChunkEnd(i) > ChunkEnd(i - 1)
        /\ Len(chunker.words) <= chunker.size => Len(chunker.result) = 1

====
